---- MODULE Spec2Model ----
(***************************************************************************)
(* Verification model of spsc-ringbuf-core:                                *)
(*   Index / RingBufRef   (src/src/ringbuf_ref.rs)                         *)
(*   SharedSingleton      (src/src/shared_singleton.rs)                    *)
(*   SharedPool           (src/src/shared_pool.rs)                         *)
(* One producer and one consumer run concurrently.  Every step of an       *)
(* endpoint contains at most one access to a field the other endpoint      *)
(* writes: in the ring specification the full/empty check of an operation  *)
(* and the index increment that follows it are separate steps; in the pool *)
(* specifications each step is one call on a ring handle or a singleton.   *)
(***************************************************************************)
EXTENDS Integers, Sequences, FiniteSets, TLC

\* ------------------------------------------------------------------------
\* Bounds of the model
\* ------------------------------------------------------------------------
\* Width in bits of the index counter.  The code uses u32; the model keeps
\* the same wrapping arithmetic at a narrower width so that the native
\* overflow of the counter is reached.
W == 4
\* Largest ring capacity explored (capacities 1..MaxN; the code requires
\* 0 < N < u32::MAX / 2).
MaxN == 3
\* Number of values a read of a never-written slot may produce.
MaxVal == 2
\* Largest depth of the shared pool explored (depths 1..MaxPool).
MaxPool == 2
\* The threads transfer this many payloads more than the pool holds.
TransferExtra == 2
\* Number of calls a free caller makes on the pool and its handles.
MaxCalls == 10

\* ------------------------------------------------------------------------
\* Wrapping arithmetic of the counter type
\* ------------------------------------------------------------------------
Word == 2 ^ W
U32Max == Word - 1

wrapping_add(a, b) == (a + b) % Word
wrapping_sub(a, b) == ((a - b) + Word) % Word
\* `raw as i32`: two's complement reinterpretation
as_i32(raw) == IF raw >= 2 ^ (W - 1) THEN raw - Word ELSE raw

is_power_of_two(n) == \E k \in 0..(W - 1) : n = 2 ^ k

RECURSIVE BitAnd(_, _)
BitAnd(a, b) ==
    IF a = 0 \/ b = 0 THEN 0
    ELSE (IF (a % 2 = 1) /\ (b % 2 = 1) THEN 1 ELSE 0) + 2 * BitAnd(a \div 2, b \div 2)

\* Index::OK and RingBufRef::OK, the compile-time checks on N
IndexOK(n) == n < (U32Max \div 2)
RingOK(n) == n > 0

\* ------------------------------------------------------------------------
\* Index<N>
\* ------------------------------------------------------------------------
\* variant: the increment relies on the native overflow for every N
wrap_inc_native(c, n) == wrapping_add(c, 1)

\* variant: the manual wrap at 2N is applied for every N
wrap_inc_manual(c, n) ==
    LET val == wrapping_add(c, 1) IN
    IF val > 2 * n - 1 THEN wrapping_sub(val, 2 * n) ELSE val

wrap_inc(c, n) ==
    LET val == wrapping_add(c, 1) IN
    IF ~is_power_of_two(n) /\ val > 2 * n - 1
    THEN wrapping_sub(val, 2 * n)
    ELSE val

wrap_dist(self, val, n) ==
    LET raw == wrapping_sub(self, val) IN
    IF ~is_power_of_two(n)
    THEN IF as_i32(raw) < 0 THEN wrapping_add(raw, 2 * n)
         ELSE IF raw > 2 * n - 1 THEN wrapping_sub(raw, 2 * n)
         ELSE raw
    ELSE raw

\* variant: the power-of-two fast path applied to every N
mask_fast_path_only(c, n) == BitAnd(c, n - 1)

mask(c, n) ==
    IF is_power_of_two(n) THEN BitAnd(c, n - 1)
    ELSE IF c > n - 1 THEN c - n
    ELSE c

\* ------------------------------------------------------------------------
\* RingBufRef<T, N>: the queries, as functions of the two counters
\* ------------------------------------------------------------------------
\* variant: the slot positions are compared instead of the counters
is_empty_masked(rd, wr, n) == mask(rd, n) = mask(wr, n)

is_empty(rd, wr, n) == rd = wr

len(rd, wr, n) == wrap_dist(wr, rd, n)

\* variant: full is reported one item early
is_full_early(rd, wr, n) == len(rd, wr, n) >= n - 1

\* variant: full is reported only beyond the capacity
is_full_late(rd, wr, n) == len(rd, wr, n) > n

is_full(rd, wr, n) == len(rd, wr, n) = n

\* ------------------------------------------------------------------------
\* State
\* ------------------------------------------------------------------------
\* Option<_> is modelled as a sequence of length at most one
None == <<>>
Some(x) == <<x>>
unwrap(o) == o[1]
\* MaybeUninit::uninit(): a slot that holds no value yet
Uninit == <<>>

VARIABLES
    N,              \* capacity (const generic N)
    rd_idx,         \* RingBufRef::rd_idx
    wr_idx,         \* RingBufRef::wr_idx
    buffer_ucell,   \* RingBufRef::buffer_ucell, slot -> value or Uninit
    p_pc,           \* position of the ring producer inside commit / push
    p_ref,          \* slot borrowed from alloc(), or None
    p_ret,          \* result of the producer's last completed call
    c_pc,           \* position of the ring consumer inside pop
    c_ref,          \* slot borrowed from peek(), or None
    c_seen,         \* value read through the peeked reference
    c_ret,          \* result of the consumer's last completed call
    nextVal,        \* the value the producer writes into the item it enqueues next
    fifo,           \* history: the slot contents enqueued by each successful
                    \* commit/push and not yet popped, oldest first
    alloc_rbuf,     \* SharedPool::alloc_rbuf, a RingBuf of messages
    return_rbuf,    \* SharedPool::return_rbuf, a RingBuf of returned pool indices
    pool,           \* SharedPool::pool, slot -> SharedSingleton
    handles,        \* the endpoint handles the owner of the pool holds, and
                    \* the result of its last split call
    producer,       \* shared_pool::Producer and the locals of its thread
    consumer        \* shared_pool::Consumer and the locals of its thread

ringvars == <<rd_idx, wr_idx, buffer_ucell, p_pc, p_ref, p_ret, c_pc, c_ref,
              c_seen, c_ret, nextVal, fifo>>

poolvars == <<alloc_rbuf, return_rbuf, pool, handles, producer, consumer>>

vars == <<N, rd_idx, wr_idx, buffer_ucell, p_pc, p_ref, p_ret, c_pc, c_ref,
          c_seen, c_ret, nextVal, fifo, alloc_rbuf, return_rbuf, pool, handles,
          producer, consumer>>

Values == 0..(MaxVal - 1)

\* The producer numbers the items it enqueues: item k carries the value
\* k mod ValPeriod(N), which keeps any 2N consecutive items distinct.
ValPeriod(n) == 2 * n

\* the values a read of a slot can produce: the stored value, or any value
\* when the slot was never written
assume_init(cell) == IF cell = Uninit THEN Values ELSE {unwrap(cell)}

Capacities == {n \in 1..MaxN : RingOK(n) /\ IndexOK(n)}

\* RingBufRef::new
RingNew ==
    /\ rd_idx = 0
    /\ wr_idx = 0
    /\ buffer_ucell = [i \in 0..(N - 1) |-> Uninit]
    /\ p_pc = "idle" /\ p_ref = None /\ p_ret = "none"
    /\ c_pc = "idle" /\ c_ref = None /\ c_seen = None /\ c_ret = "none"
    /\ nextVal = 0
    /\ fifo = <<>>

\* ------------------------------------------------------------------------
\* SharedSingleton<T>: a record [owner, ucell]
\* ------------------------------------------------------------------------
\* SharedSingleton::new
SharedSingleton_new == [owner |-> "Vacant", ucell |-> Uninit]

is_vacant(s) == s.owner = "Vacant"

\* variant: a reference is handed out whatever the owner is
try_write_any(s) == [ok |-> TRUE, s |-> [s EXCEPT !.owner = "Producer"]]

\* variant: write_done releases the slot instead of passing it on
write_done_to_vacant(s) ==
    IF s.owner = "Producer"
    THEN [ok |-> TRUE, s |-> [s EXCEPT !.owner = "Vacant"]]
    ELSE [ok |-> FALSE, s |-> s]

\* each call yields [ok, s]: whether it succeeded and the singleton afterwards
try_write(s) ==
    IF s.owner = "Vacant"
    THEN [ok |-> TRUE, s |-> [s EXCEPT !.owner = "Producer"]]
    ELSE [ok |-> FALSE, s |-> s]

write_done(s) ==
    IF s.owner = "Producer"
    THEN [ok |-> TRUE, s |-> [s EXCEPT !.owner = "Consumer"]]
    ELSE [ok |-> FALSE, s |-> s]

\* variant: a reference is returned whenever the slot is not Vacant
try_read_not_vacant(s) == s.owner # "Vacant"

\* try_read returns a reference iff the owner is Consumer
try_read(s) == s.owner = "Consumer"

\* variant: Ok is returned and the owner stays Consumer
read_done_keeps_owner(s) == [ok |-> s.owner = "Consumer", s |-> s]

read_done(s) ==
    IF s.owner = "Consumer"
    THEN [ok |-> TRUE, s |-> [s EXCEPT !.owner = "Vacant"]]
    ELSE [ok |-> FALSE, s |-> s]

\* ------------------------------------------------------------------------
\* RingBuf<Q, N>: a record [rd_idx, wr_idx, buffer_ucell, has_split_prod,
\* has_split_cons]; the operations of its Producer and Consumer handles
\* ------------------------------------------------------------------------
\* RingBuf::new
RingBuf_new(n) ==
    [rd_idx |-> 0, wr_idx |-> 0, buffer_ucell |-> [i \in 0..(n - 1) |-> Uninit],
     has_split_prod |-> FALSE, has_split_cons |-> FALSE]

\* variant: the slots of the two cursors are compared, not the cursors
rb_is_empty_by_slot(rb) == mask(rb.rd_idx, N) = mask(rb.wr_idx, N)

rb_is_empty(rb) == is_empty(rb.rd_idx, rb.wr_idx, N)
\* variant: the ring never reports full
rb_is_full_never(rb) == FALSE
rb_is_full(rb) == is_full(rb.rd_idx, rb.wr_idx, N)
rb_len(rb) == len(rb.rd_idx, rb.wr_idx, N)
\* the slot stage() hands out and the slot peek() hands out
rb_stage_slot(rb) == mask(rb.wr_idx, N)
\* variant: peek hands out the slot of the write cursor
rb_peek_slot_at_wr(rb) == mask(rb.wr_idx, N)
rb_peek_slot(rb) == mask(rb.rd_idx, N)
\* variant: commit advances the read cursor
rb_commit_moves_rd(rb) == [rb EXCEPT !.rd_idx = wrap_inc(rb.rd_idx, N)]
\* commit and pop on a ring that passed the full / empty test
rb_commit(rb) == [rb EXCEPT !.wr_idx = wrap_inc(rb.wr_idx, N)]
\* variant: pop reports success and leaves rd_idx where it was
rb_pop_stuck(rb) == rb
rb_pop(rb) == [rb EXCEPT !.rd_idx = wrap_inc(rb.rd_idx, N)]
\* the write through a staged reference
rb_write(rb, slot, v) == [rb EXCEPT !.buffer_ucell[slot] = Some(v)]
\* the items between rd_idx and wr_idx, oldest first
RECURSIVE rb_items_from(_, _, _)
rb_items_from(rb, c, k) ==
    IF k = 0 THEN <<>>
    ELSE <<rb.buffer_ucell[mask(c, N)]>> \o rb_items_from(rb, wrap_inc(c, N), k - 1)
rb_items(rb) == rb_items_from(rb, rb.rd_idx, rb_len(rb))

\* ------------------------------------------------------------------------
\* PoolIndex<N>
\* ------------------------------------------------------------------------
\* PoolIndex::is_valid, and TryFrom<PoolIndex<N>> for usize succeeding
is_valid(pidx) == pidx < N
\* variant: stage() sets the index of the last pool slot
Sentinel_last_slot == N - 1
\* the sentinel "no payload"
Sentinel == N
\* the values a read of a message's PoolIndex can produce
get_pool_idx(cell) == IF cell = Uninit THEN 0..N ELSE {unwrap(cell)}

\* ------------------------------------------------------------------------
\* The two threads of tests/integration_test.rs::test_threads.  prog is the
\* call a thread makes next; "free" is a caller that may make any call.
\* ------------------------------------------------------------------------
\* the number of payloads transferred (total_transfer), more than the pool holds
total_transfer == N + TransferExtra

ProducerAfter(prog, op, ok, count) ==
    IF prog = "free" THEN "free"
    ELSE CASE op = "stage_with_payload" -> IF ok THEN "try_write" ELSE "stage_with_payload"
           [] op = "try_write" -> IF ok THEN "write" ELSE "panic"
           [] op = "write" -> "write_done"
           [] op = "write_done" -> IF ok THEN "commit" ELSE "panic"
           [] op = "commit" -> IF ~ok THEN "panic"
                               ELSE IF count = total_transfer THEN "exit"
                               ELSE "stage_with_payload"
           [] OTHER -> "panic"

ConsumerAfter(prog, op, ok, expected) ==
    IF prog = "free" THEN "free"
    ELSE CASE op = "peek" -> IF ok THEN "peek_with_payload" ELSE "peek"
           [] op = "peek_with_payload" -> IF ok THEN "get_pool_idx" ELSE "panic"
           [] op = "get_pool_idx" -> "try_read"
           [] op = "try_read" -> IF ok THEN "read_done" ELSE "panic"
           [] op = "read_done" -> IF ok THEN "pop" ELSE "panic"
           [] op = "pop" -> IF ok THEN "enqueue_return" ELSE "panic"
           [] op = "enqueue_return" -> IF ~ok THEN "panic"
                                       ELSE IF expected = total_transfer THEN "exit"
                                       ELSE "peek"
           [] OTHER -> "panic"

\* A thread of test_threads makes the call its program is at.  A free caller
\* is a single thread, as in test_errors: it makes its calls one after the
\* other, at most MaxCalls of them.
CallerFree ==
    /\ producer.pc = "idle"
    /\ consumer.pc = "idle"
    /\ handles.calls < MaxCalls

MayCall(t, op) == t.pc = "idle" /\ (t.prog = op \/ (t.prog = "free" /\ CallerFree))

\* the count of the calls of the free caller
Called ==
    IF producer.prog = "free" THEN [handles EXCEPT !.calls = handles.calls + 1]
    ELSE handles

\* SharedPool::new, with no endpoint split and both threads not yet started.
\* pool_full records that a stage_with_payload of this producer has returned
\* PoolFull (the assertions of test_errors on an exhausted pool).
PoolNew(prog_p, prog_c) ==
    /\ alloc_rbuf = RingBuf_new(N)
    /\ return_rbuf = RingBuf_new(N)
    /\ pool = [i \in 0..(N - 1) |-> SharedSingleton_new]
    /\ handles = [producer |-> FALSE, consumer |-> FALSE, ret |-> "none", calls |-> 0]
    /\ producer = [pc |-> "idle", prog |-> prog_p, idx |-> None, staged |-> None,
                   payload |-> None, inner |-> None, gate |-> None,
                   ret |-> "none", count |-> 0, pool_full |-> FALSE]
    /\ consumer = [pc |-> "idle", prog |-> prog_c, msg |-> None, payload |-> None,
                   idx |-> None, seen |-> None, ret |-> "none", expected |-> 0]

PoolDepths == {n \in 1..MaxPool : RingOK(n) /\ IndexOK(n)}

Init ==
    /\ N \in Capacities
    /\ RingNew
    /\ PoolNew("free", "free")

\* variant: alloc hands out the slot of the read cursor
alloc_at_rd ==
    /\ p_pc = "idle"
    /\ IF ~is_full(rd_idx, wr_idx, N)
       THEN p_ref' = Some(mask(rd_idx, N)) /\ p_ret' = "Some"
       ELSE p_ref' = None /\ p_ret' = "None"
    /\ UNCHANGED poolvars
    /\ UNCHANGED <<N, rd_idx, wr_idx, buffer_ucell, p_pc, c_pc, c_ref, c_seen,
                   c_ret, nextVal, fifo>>

\* ------------------------------------------------------------------------
\* Ring producer
\* ------------------------------------------------------------------------
\* RingBufRef::alloc (Producer::writer_front)
alloc ==
    /\ p_pc = "idle"
    /\ IF ~is_full(rd_idx, wr_idx, N)
       THEN p_ref' = Some(mask(wr_idx, N)) /\ p_ret' = "Some"
       ELSE p_ref' = None /\ p_ret' = "None"
    /\ UNCHANGED poolvars
    /\ UNCHANGED <<N, rd_idx, wr_idx, buffer_ucell, p_pc, c_pc, c_ref, c_seen,
                   c_ret, nextVal, fifo>>

\* the caller's write through the reference returned by alloc
write_staged ==
    /\ p_pc = "idle"
    /\ p_ref # None
    /\ buffer_ucell' = [buffer_ucell EXCEPT ![unwrap(p_ref)] = Some(nextVal)]
    /\ UNCHANGED poolvars
    /\ UNCHANGED <<N, rd_idx, wr_idx, p_pc, p_ref, p_ret, c_pc, c_ref, c_seen,
                   c_ret, nextVal, fifo>>

\* RingBufRef::commit, the is_full test
commit_check ==
    /\ p_pc = "idle"
    /\ p_ref' = None
    /\ IF ~is_full(rd_idx, wr_idx, N)
       THEN p_pc' = "commit_inc" /\ p_ret' = "none"
       ELSE p_pc' = "idle" /\ p_ret' = "BuffFull"
    /\ UNCHANGED poolvars
    /\ UNCHANGED <<N, rd_idx, wr_idx, buffer_ucell, c_pc, c_ref, c_seen, c_ret,
                   nextVal, fifo>>

\* RingBufRef::commit, wr_idx.wrap_inc()
commit_inc ==
    /\ p_pc = "commit_inc"
    /\ fifo' = Append(fifo, buffer_ucell[mask(wr_idx, N)])
    /\ wr_idx' = wrap_inc(wr_idx, N)
    /\ p_pc' = "idle"
    /\ p_ret' = "Ok"
    /\ nextVal' = (nextVal + 1) % ValPeriod(N)
    /\ UNCHANGED poolvars
    /\ UNCHANGED <<N, rd_idx, buffer_ucell, p_ref, c_pc, c_ref, c_seen, c_ret>>

\* RingBufRef::push, the is_full test
push_check ==
    /\ p_pc = "idle"
    /\ p_ref' = None
    /\ IF ~is_full(rd_idx, wr_idx, N)
       THEN p_pc' = "push_write" /\ p_ret' = "none"
       ELSE p_pc' = "idle" /\ p_ret' = "BuffFull"
    /\ UNCHANGED poolvars
    /\ UNCHANGED <<N, rd_idx, wr_idx, buffer_ucell, c_pc, c_ref, c_seen, c_ret,
                   nextVal, fifo>>

\* RingBufRef::push, the write of val into the slot at mask(wr_idx)
push_write ==
    /\ p_pc = "push_write"
    /\ buffer_ucell' = [buffer_ucell EXCEPT ![mask(wr_idx, N)] = Some(nextVal)]
    /\ p_pc' = "push_inc"
    /\ UNCHANGED poolvars
    /\ UNCHANGED <<N, rd_idx, wr_idx, p_ref, p_ret, c_pc, c_ref, c_seen, c_ret,
                   nextVal, fifo>>

\* RingBufRef::push, wr_idx.wrap_inc()
push_inc ==
    /\ p_pc = "push_inc"
    /\ fifo' = Append(fifo, buffer_ucell[mask(wr_idx, N)])
    /\ wr_idx' = wrap_inc(wr_idx, N)
    /\ p_pc' = "idle"
    /\ p_ret' = "Ok"
    /\ nextVal' = (nextVal + 1) % ValPeriod(N)
    /\ UNCHANGED poolvars
    /\ UNCHANGED <<N, rd_idx, buffer_ucell, p_ref, c_pc, c_ref, c_seen, c_ret>>

\* ------------------------------------------------------------------------
\* Ring consumer
\* ------------------------------------------------------------------------
\* RingBufRef::peek (Consumer::reader_front)
peek ==
    /\ c_pc = "idle"
    /\ IF is_empty(rd_idx, wr_idx, N)
       THEN c_ref' = None /\ c_ret' = "None"
       ELSE c_ref' = Some(mask(rd_idx, N)) /\ c_ret' = "Some"
    /\ UNCHANGED poolvars
    /\ UNCHANGED <<N, rd_idx, wr_idx, buffer_ucell, p_pc, p_ref, p_ret, c_pc,
                   c_seen, nextVal, fifo>>

\* RingBufRef::peek_mut (Consumer::reader_front_mut): the test and the slot of
\* peek, the reference handed out being mutable
peek_mut ==
    /\ c_pc = "idle"
    /\ IF is_empty(rd_idx, wr_idx, N)
       THEN c_ref' = None /\ c_ret' = "None"
       ELSE c_ref' = Some(mask(rd_idx, N)) /\ c_ret' = "Some"
    /\ UNCHANGED poolvars
    /\ UNCHANGED <<N, rd_idx, wr_idx, buffer_ucell, p_pc, p_ref, p_ret, c_pc,
                   c_seen, nextVal, fifo>>

\* the caller's read through the reference returned by peek; reading a slot
\* that was never written yields an arbitrary value
read_peeked ==
    /\ c_pc = "idle"
    /\ c_ref # None
    /\ \E v \in assume_init(buffer_ucell[unwrap(c_ref)]) : c_seen' = Some(v)
    /\ UNCHANGED poolvars
    /\ UNCHANGED <<N, rd_idx, wr_idx, buffer_ucell, p_pc, p_ref, p_ret, c_pc,
                   c_ref, c_ret, nextVal, fifo>>

\* variant: pop goes on to its increment without the is_empty test
pop_check_untested ==
    /\ c_pc = "idle"
    /\ c_ref' = None
    /\ c_pc' = "pop_inc" /\ c_ret' = "none"
    /\ UNCHANGED poolvars
    /\ UNCHANGED <<N, rd_idx, wr_idx, buffer_ucell, p_pc, p_ref, p_ret, c_seen,
                   nextVal, fifo>>

\* RingBufRef::pop, the is_empty test
pop_check ==
    /\ c_pc = "idle"
    /\ c_ref' = None
    /\ IF ~is_empty(rd_idx, wr_idx, N)
       THEN c_pc' = "pop_inc" /\ c_ret' = "none"
       ELSE c_pc' = "idle" /\ c_ret' = "BuffEmpty"
    /\ UNCHANGED poolvars
    /\ UNCHANGED <<N, rd_idx, wr_idx, buffer_ucell, p_pc, p_ref, p_ret, c_seen,
                   nextVal, fifo>>

\* RingBufRef::pop, rd_idx.wrap_inc()
pop_inc ==
    /\ c_pc = "pop_inc"
    /\ fifo' = Tail(fifo)
    /\ rd_idx' = wrap_inc(rd_idx, N)
    /\ c_seen' = None
    /\ c_pc' = "idle"
    /\ c_ret' = "Ok"
    /\ UNCHANGED poolvars
    /\ UNCHANGED <<N, wr_idx, buffer_ucell, p_pc, p_ref, p_ret, c_ref, nextVal>>

Next ==
    \/ alloc
    \/ write_staged
    \/ commit_check
    \/ commit_inc
    \/ push_check
    \/ push_write
    \/ push_inc
    \/ peek
    \/ peek_mut
    \/ read_peeked
    \/ pop_check
    \/ pop_inc

Spec == Init /\ [][Next]_vars

\* ------------------------------------------------------------------------
\* Properties of the ring buffer
\* ------------------------------------------------------------------------

\* C1: FIFO order.  The value the consumer sees through peek before a pop is
\* the oldest value enqueued and not yet popped, so the values dequeued are
\* the values enqueued, in order, none lost, duplicated or reordered.  (An
\* item committed without ever being written has no value to compare.)
C1_FifoOrder ==
    (c_seen # None /\ fifo # <<>> /\ Head(fifo) # Uninit) => c_seen = Head(fifo)

\* a full ring of capacity 3 whose write counter has wrapped, with the
\* consumer between the test and the increment of a pop after reading the head
C1_Witness ==
    /\ N = 3 /\ Len(fifo) = N /\ wr_idx < rd_idx
    /\ c_pc = "pop_inc" /\ c_seen # None /\ c_seen = Head(fifo)

split_prod(a, r) ==
    IF a.has_split_prod \/ r.has_split_cons
    THEN [ok |-> FALSE, a |-> a, r |-> r]
    ELSE [ok |-> TRUE,
          a |-> [a EXCEPT !.has_split_prod = TRUE],
          r |-> [r EXCEPT !.has_split_cons = TRUE]]

\* variant: the pre-fill loop stops one entry early
RECURSIVE seed_one_short(_, _)
seed_one_short(r, i) ==
    IF i + 1 >= N \/ is_full(r.rd_idx, r.wr_idx, N) THEN r
    ELSE seed_one_short(
             [r EXCEPT !.buffer_ucell[mask(r.wr_idx, N)] = Some(i),
                       !.wr_idx = wrap_inc(r.wr_idx, N)], i + 1)

\* variant: every entry seeded names slot 0
RECURSIVE seed_same_index(_, _)
seed_same_index(r, i) ==
    IF i >= N \/ is_full(r.rd_idx, r.wr_idx, N) THEN r
    ELSE seed_same_index(
             [r EXCEPT !.buffer_ucell[mask(r.wr_idx, N)] = Some(0),
                       !.wr_idx = wrap_inc(r.wr_idx, N)], i + 1)

\* the pre-fill loop of split_cons: for i in 0..N, stage, set_pool_idx(i),
\* commit (a stage on a full ring is skipped here; unwrap would panic)
RECURSIVE seed(_, _)
seed(r, i) ==
    IF i >= N \/ rb_is_full(r) THEN r
    ELSE seed(rb_commit(rb_write(r, rb_stage_slot(r), i)), i + 1)

\* variant: a rejected split_cons runs the pre-fill loop again
split_cons_reseed(a, r) ==
    IF a.has_split_cons \/ r.has_split_prod
    THEN [ok |-> FALSE, a |-> a, r |-> seed(r, 0)]
    ELSE [ok |-> TRUE,
          a |-> [a EXCEPT !.has_split_cons = TRUE],
          r |-> seed([r EXCEPT !.has_split_prod = TRUE], 0)]

\* SharedPool::split_cons
split_cons(a, r) ==
    IF a.has_split_cons \/ r.has_split_prod
    THEN [ok |-> FALSE, a |-> a, r |-> r]
    ELSE [ok |-> TRUE,
          a |-> [a EXCEPT !.has_split_cons = TRUE],
          r |-> seed([r EXCEPT !.has_split_prod = TRUE], 0)]

SplitResult(ok) == IF ok THEN "Ok" ELSE "AlreadySplit"

\* the owner of the pool is the free caller, or the main thread of test_threads
MaySplit == producer.prog = "free" => CallerFree

SharedPool_split_prod ==
    /\ MaySplit
    /\ LET res == split_prod(alloc_rbuf, return_rbuf) IN
          /\ alloc_rbuf' = res.a
          /\ return_rbuf' = res.r
          /\ handles' = [Called EXCEPT !.producer = handles.producer \/ res.ok,
                                       !.ret = SplitResult(res.ok)]
    /\ UNCHANGED <<N, ringvars, pool, producer, consumer>>

SharedPool_split_cons ==
    /\ MaySplit
    /\ LET res == split_cons(alloc_rbuf, return_rbuf) IN
          /\ alloc_rbuf' = res.a
          /\ return_rbuf' = res.r
          /\ handles' = [Called EXCEPT !.consumer = handles.consumer \/ res.ok,
                                       !.ret = SplitResult(res.ok)]
    /\ UNCHANGED <<N, ringvars, pool, producer, consumer>>

\* SharedPool::split: both splits are made, and both handles are handed out
\* only when both succeeded
SharedPool_split ==
    /\ MaySplit
    /\ LET p == split_prod(alloc_rbuf, return_rbuf)
           c == split_cons(p.a, p.r)
           ok == p.ok /\ c.ok
       IN /\ alloc_rbuf' = c.a
          /\ return_rbuf' = c.r
          /\ handles' = [Called EXCEPT !.producer = handles.producer \/ ok,
                                       !.consumer = handles.consumer \/ ok,
                                       !.ret = SplitResult(ok)]
    /\ UNCHANGED <<N, ringvars, pool, producer, consumer>>

\* ------------------------------------------------------------------------
\* shared_pool::Producer.  Each step is one call on a ring buffer handle or
\* on a singleton.
\* ------------------------------------------------------------------------
ProducerCalls(op) == handles.producer /\ MayCall(producer, op)

\* a call on the Producer handle ends the borrows the previous call returned
DropBorrows(t) == [t EXCEPT !.payload = None, !.inner = None]

\* Producer::stage: alloc_prod.stage(), set_pool_idx(N)
Producer_stage ==
    /\ ProducerCalls("stage")
    /\ IF ~rb_is_full(alloc_rbuf)
       THEN /\ alloc_rbuf' = rb_write(alloc_rbuf, rb_stage_slot(alloc_rbuf), Sentinel)
            /\ producer' = [DropBorrows(producer) EXCEPT
                              !.staged = Some(rb_stage_slot(alloc_rbuf)),
                              !.ret = "Some",
                              !.prog = ProducerAfter(producer.prog, "stage", TRUE, producer.count)]
       ELSE /\ alloc_rbuf' = alloc_rbuf
            /\ producer' = [DropBorrows(producer) EXCEPT
                              !.ret = "None",
                              !.prog = ProducerAfter(producer.prog, "stage", FALSE, producer.count)]
    /\ handles' = Called
    /\ UNCHANGED <<N, ringvars, return_rbuf, pool, consumer>>

\* Producer::stage_with_payload, get_pool_item: return_cons.peek() and
\* usize::try_from(item.get_pool_idx()).unwrap()
Producer_get_pool_item_peek ==
    /\ ProducerCalls("stage_with_payload")
    /\ IF rb_is_empty(return_rbuf)
       THEN producer' = [DropBorrows(producer) EXCEPT
                           !.ret = "PoolFull",
                           !.pool_full = TRUE,
                           !.prog = ProducerAfter(producer.prog, "stage_with_payload",
                                                  FALSE, producer.count)]
       ELSE \E pidx \in get_pool_idx(return_rbuf.buffer_ucell[rb_peek_slot(return_rbuf)]) :
               IF is_valid(pidx)
               THEN producer' = [DropBorrows(producer) EXCEPT
                                   !.pc = "get_pool_item_is_vacant",
                                   !.idx = Some(pidx),
                                   !.ret = "none"]
               ELSE producer' = [DropBorrows(producer) EXCEPT
                                   !.pc = "panic", !.ret = "panic: invalid return entry"]
    /\ handles' = Called
    /\ UNCHANGED <<N, ringvars, alloc_rbuf, return_rbuf, pool, consumer>>

\* get_pool_item: assert!(self.pool_ref[payload_idx].is_vacant())
Producer_get_pool_item_is_vacant ==
    /\ handles.producer
    /\ producer.pc = "get_pool_item_is_vacant"
    /\ IF is_vacant(pool[unwrap(producer.idx)])
       THEN producer' = [producer EXCEPT !.pc = "get_pool_item_pop"]
       ELSE producer' = [producer EXCEPT !.pc = "panic", !.ret = "panic: not vacant on take"]
    /\ UNCHANGED <<N, ringvars, alloc_rbuf, return_rbuf, pool, handles, consumer>>

\* get_pool_item: assert!(self.return_cons.pop().is_ok())
Producer_get_pool_item_pop ==
    /\ handles.producer
    /\ producer.pc = "get_pool_item_pop"
    /\ IF ~rb_is_empty(return_rbuf)
       THEN /\ return_rbuf' = rb_pop(return_rbuf)
            /\ producer' = [producer EXCEPT !.pc = "stage_with_payload_stage"]
       ELSE /\ return_rbuf' = return_rbuf
            /\ producer' = [producer EXCEPT !.pc = "panic", !.ret = "panic: pop failed"]
    /\ UNCHANGED <<N, ringvars, alloc_rbuf, pool, handles, consumer>>

\* Producer::stage_with_payload: alloc_prod.stage() and set_pool_idx(idx); on
\* a full alloc queue the index taken is dropped
Producer_stage_with_payload_stage ==
    /\ handles.producer
    /\ producer.pc = "stage_with_payload_stage"
    /\ IF ~rb_is_full(alloc_rbuf)
       THEN /\ alloc_rbuf' = rb_write(alloc_rbuf, rb_stage_slot(alloc_rbuf),
                                      unwrap(producer.idx))
            /\ producer' = [producer EXCEPT
                              !.pc = "idle",
                              !.staged = Some(rb_stage_slot(alloc_rbuf)),
                              !.payload = producer.idx,
                              !.idx = None,
                              !.ret = "Ok",
                              !.prog = ProducerAfter(producer.prog, "stage_with_payload",
                                                     TRUE, producer.count)]
       ELSE /\ alloc_rbuf' = alloc_rbuf
            /\ producer' = [producer EXCEPT
                              !.pc = "idle",
                              !.idx = None,
                              !.ret = "AllocBufFull",
                              !.prog = ProducerAfter(producer.prog, "stage_with_payload",
                                                     FALSE, producer.count)]
    /\ UNCHANGED <<N, ringvars, return_rbuf, pool, handles, consumer>>

\* payload.try_write() on the singleton returned by stage_with_payload
Producer_try_write ==
    /\ ProducerCalls("try_write")
    /\ producer.payload # None
    /\ LET i == unwrap(producer.payload)
           res == try_write(pool[i])
       IN /\ pool' = [pool EXCEPT ![i] = res.s]
          /\ producer' = [producer EXCEPT
                            !.inner = IF res.ok THEN Some(i) ELSE producer.inner,
                            !.ret = IF res.ok THEN "Some" ELSE "None",
                            !.prog = ProducerAfter(producer.prog, "try_write", res.ok,
                                                   producer.count)]
    /\ handles' = Called
    /\ UNCHANGED <<N, ringvars, alloc_rbuf, return_rbuf, consumer>>

\* the write of the payload through the reference try_write returned:
\* inner.value = count; count += 1
Producer_write ==
    /\ ProducerCalls("write")
    /\ producer.inner # None
    /\ producer.count < total_transfer
    /\ pool' = [pool EXCEPT ![unwrap(producer.inner)].ucell = Some(producer.count)]
    /\ producer' = [producer EXCEPT
                      !.count = producer.count + 1,
                      !.prog = ProducerAfter(producer.prog, "write", TRUE, producer.count)]
    /\ handles' = Called
    /\ UNCHANGED <<N, ringvars, alloc_rbuf, return_rbuf, consumer>>

\* payload.write_done()
Producer_write_done ==
    /\ ProducerCalls("write_done")
    /\ producer.payload # None
    /\ LET i == unwrap(producer.payload)
           res == write_done(pool[i])
       IN /\ pool' = [pool EXCEPT ![i] = res.s]
          /\ producer' = [producer EXCEPT
                            !.ret = IF res.ok THEN "Ok" ELSE "NotOwned",
                            !.prog = ProducerAfter(producer.prog, "write_done", res.ok,
                                                   producer.count)]
    /\ handles' = Called
    /\ UNCHANGED <<N, ringvars, alloc_rbuf, return_rbuf, consumer>>

\* Producer::commit: alloc_prod.stage() and item.get_pool_idx()
Producer_commit_stage ==
    /\ ProducerCalls("commit")
    /\ IF ~rb_is_full(alloc_rbuf)
       THEN \E pidx \in get_pool_idx(alloc_rbuf.buffer_ucell[rb_stage_slot(alloc_rbuf)]) :
               producer' = [DropBorrows(producer) EXCEPT
                              !.pc = IF is_valid(pidx) THEN "commit_gate" ELSE "commit_commit",
                              !.gate = IF is_valid(pidx) THEN Some(pidx) ELSE None,
                              !.ret = "none"]
       ELSE producer' = [DropBorrows(producer) EXCEPT
                           !.pc = "commit_commit", !.gate = None, !.ret = "none"]
    /\ handles' = Called
    /\ UNCHANGED <<N, ringvars, alloc_rbuf, return_rbuf, pool, consumer>>

\* Producer::commit: self.pool_ref[idx].peek().is_none()
Producer_commit_gate ==
    /\ handles.producer
    /\ producer.pc = "commit_gate"
    /\ IF ~try_read(pool[unwrap(producer.gate)])
       THEN producer' = [producer EXCEPT
                           !.pc = "idle", !.gate = None,
                           !.ret = "PayloadNotConsumerOwned",
                           !.prog = ProducerAfter(producer.prog, "commit", FALSE,
                                                  producer.count)]
       ELSE producer' = [producer EXCEPT !.pc = "commit_commit", !.gate = None]
    /\ UNCHANGED <<N, ringvars, alloc_rbuf, return_rbuf, pool, handles, consumer>>

\* Producer::commit: alloc_prod.commit().map_err(|_| AllocBufFull)
Producer_commit_commit ==
    /\ handles.producer
    /\ producer.pc = "commit_commit"
    /\ IF ~rb_is_full(alloc_rbuf)
       THEN /\ alloc_rbuf' = rb_commit(alloc_rbuf)
            /\ producer' = [producer EXCEPT
                              !.pc = "idle", !.staged = None, !.ret = "Ok",
                              !.prog = ProducerAfter(producer.prog, "commit", TRUE,
                                                     producer.count)]
       ELSE /\ alloc_rbuf' = alloc_rbuf
            /\ producer' = [producer EXCEPT
                              !.pc = "idle", !.ret = "AllocBufFull",
                              !.prog = ProducerAfter(producer.prog, "commit", FALSE,
                                                     producer.count)]
    /\ UNCHANGED <<N, ringvars, return_rbuf, pool, handles, consumer>>

\* ------------------------------------------------------------------------
\* shared_pool::Consumer
\* ------------------------------------------------------------------------
ConsumerCalls(op) == handles.consumer /\ MayCall(consumer, op)

\* Consumer::peek: alloc_cons.peek()
Consumer_peek ==
    /\ ConsumerCalls("peek")
    /\ LET some == ~rb_is_empty(alloc_rbuf) IN
       consumer' = [consumer EXCEPT
                      !.msg = IF some THEN Some(rb_peek_slot(alloc_rbuf)) ELSE None,
                      !.payload = None,
                      !.ret = IF some THEN "Some" ELSE "None",
                      !.prog = ConsumerAfter(consumer.prog, "peek", some, consumer.expected)]
    /\ handles' = Called
    /\ UNCHANGED <<N, ringvars, alloc_rbuf, return_rbuf, pool, producer>>

\* Consumer::peek_with_payload: the head message, and the singleton its
\* PoolIndex names when that index is valid
Consumer_peek_with_payload ==
    /\ ConsumerCalls("peek_with_payload")
    /\ IF rb_is_empty(alloc_rbuf)
       THEN consumer' = [consumer EXCEPT
                           !.msg = None, !.payload = None, !.ret = "None",
                           !.prog = ConsumerAfter(consumer.prog, "peek_with_payload",
                                                  FALSE, consumer.expected)]
       ELSE \E pidx \in get_pool_idx(alloc_rbuf.buffer_ucell[rb_peek_slot(alloc_rbuf)]) :
               consumer' = [consumer EXCEPT
                              !.msg = Some(rb_peek_slot(alloc_rbuf)),
                              !.payload = IF is_valid(pidx) THEN Some(pidx) ELSE None,
                              !.ret = IF is_valid(pidx) THEN "Some,Some" ELSE "Some,None",
                              !.prog = ConsumerAfter(consumer.prog, "peek_with_payload",
                                                     is_valid(pidx), consumer.expected)]
    /\ handles' = Called
    /\ UNCHANGED <<N, ringvars, alloc_rbuf, return_rbuf, pool, producer>>

\* the caller's copy of the PoolIndex of the peeked message:
\* let pool_idx = recvd.get_pool_idx()
Consumer_get_pool_idx ==
    /\ ConsumerCalls("get_pool_idx")
    /\ consumer.msg # None
    /\ \E pidx \in get_pool_idx(alloc_rbuf.buffer_ucell[unwrap(consumer.msg)]) :
          consumer' = [consumer EXCEPT
                         !.idx = Some(pidx),
                         !.prog = ConsumerAfter(consumer.prog, "get_pool_idx", TRUE,
                                                consumer.expected)]
    /\ handles' = Called
    /\ UNCHANGED <<N, ringvars, alloc_rbuf, return_rbuf, pool, producer>>

\* payload.try_read() and the read of the value; test_threads asserts that the
\* value is the expected one and counts it
Consumer_try_read ==
    /\ ConsumerCalls("try_read")
    /\ consumer.payload # None
    /\ LET s == pool[unwrap(consumer.payload)] IN
       IF try_read(s)
       THEN \E v \in assume_init(s.ucell) :
               consumer' = [consumer EXCEPT
                              !.seen = Some(v),
                              !.ret = "Some",
                              !.expected = IF consumer.prog = "free" THEN consumer.expected
                                           ELSE consumer.expected + 1,
                              !.prog = ConsumerAfter(consumer.prog, "try_read",
                                                     v = consumer.expected,
                                                     consumer.expected)]
       ELSE consumer' = [consumer EXCEPT
                           !.seen = None,
                           !.ret = "None",
                           !.prog = ConsumerAfter(consumer.prog, "try_read", FALSE,
                                                  consumer.expected)]
    /\ handles' = Called
    /\ UNCHANGED <<N, ringvars, alloc_rbuf, return_rbuf, pool, producer>>

\* payload.read_done()
Consumer_read_done ==
    /\ ConsumerCalls("read_done")
    /\ consumer.payload # None
    /\ LET i == unwrap(consumer.payload)
           res == read_done(pool[i])
       IN /\ pool' = [pool EXCEPT ![i] = res.s]
          /\ consumer' = [consumer EXCEPT
                            !.ret = IF res.ok THEN "Ok" ELSE "NotOwned",
                            !.prog = ConsumerAfter(consumer.prog, "read_done", res.ok,
                                                   consumer.expected)]
    /\ handles' = Called
    /\ UNCHANGED <<N, ringvars, alloc_rbuf, return_rbuf, producer>>

\* Consumer::pop: alloc_cons.pop().map_err(|_| AllocBufEmpty)
Consumer_pop ==
    /\ ConsumerCalls("pop")
    /\ LET ok == ~rb_is_empty(alloc_rbuf) IN
       /\ alloc_rbuf' = IF ok THEN rb_pop(alloc_rbuf) ELSE alloc_rbuf
       /\ consumer' = [consumer EXCEPT
                         !.msg = None, !.payload = None,
                         !.ret = IF ok THEN "Ok" ELSE "AllocBufEmpty",
                         !.prog = ConsumerAfter(consumer.prog, "pop", ok,
                                                consumer.expected)]
    /\ handles' = Called
    /\ UNCHANGED <<N, ringvars, return_rbuf, pool, producer>>

\* Consumer::enqueue_return: return_prod.stage() and
\* usize::try_from(pidx).unwrap()
Consumer_enqueue_return_stage ==
    /\ ConsumerCalls("enqueue_return")
    /\ consumer.idx # None
    /\ IF rb_is_full(return_rbuf)
       THEN consumer' = [consumer EXCEPT
                           !.msg = None, !.payload = None,
                           !.ret = "ReturnBufFull",
                           !.prog = ConsumerAfter(consumer.prog, "enqueue_return", FALSE,
                                                  consumer.expected)]
       ELSE IF is_valid(unwrap(consumer.idx))
       THEN consumer' = [consumer EXCEPT
                           !.msg = None, !.payload = None,
                           !.pc = "enqueue_return_is_vacant", !.ret = "none"]
       ELSE consumer' = [consumer EXCEPT
                           !.msg = None, !.payload = None,
                           !.pc = "panic", !.ret = "panic: invalid index returned"]
    /\ handles' = Called
    /\ UNCHANGED <<N, ringvars, alloc_rbuf, return_rbuf, pool, producer>>

\* Consumer::enqueue_return: assert!(self.pool_ref[loc].is_vacant())
Consumer_enqueue_return_is_vacant ==
    /\ handles.consumer
    /\ consumer.pc = "enqueue_return_is_vacant"
    /\ IF is_vacant(pool[unwrap(consumer.idx)])
       THEN consumer' = [consumer EXCEPT !.pc = "enqueue_return_commit"]
       ELSE consumer' = [consumer EXCEPT
                           !.pc = "panic", !.ret = "panic: not vacant on return"]
    /\ UNCHANGED <<N, ringvars, alloc_rbuf, return_rbuf, pool, handles, producer>>

\* Consumer::enqueue_return: re.set_pool_idx(pidx) and
\* return_prod.commit().map_err(|_| ReturnBufFull)
Consumer_enqueue_return_commit ==
    /\ handles.consumer
    /\ consumer.pc = "enqueue_return_commit"
    /\ LET ok == ~rb_is_full(return_rbuf) IN
       /\ return_rbuf' =
             IF ok
             THEN rb_commit(rb_write(return_rbuf, rb_stage_slot(return_rbuf),
                                     unwrap(consumer.idx)))
             ELSE return_rbuf
       /\ consumer' = [consumer EXCEPT
                         !.pc = "idle",
                         !.ret = IF ok THEN "Ok" ELSE "ReturnBufFull",
                         !.prog = ConsumerAfter(consumer.prog, "enqueue_return", ok,
                                                consumer.expected)]
    /\ UNCHANGED <<N, ringvars, alloc_rbuf, pool, handles, producer>>

\* ------------------------------------------------------------------------
\* Specifications of the shared pool
\* ------------------------------------------------------------------------
ProducerNext ==
    \/ Producer_get_pool_item_peek
    \/ Producer_get_pool_item_is_vacant
    \/ Producer_get_pool_item_pop
    \/ Producer_stage_with_payload_stage
    \/ Producer_try_write
    \/ Producer_write
    \/ Producer_write_done
    \/ Producer_commit_stage
    \/ Producer_commit_gate
    \/ Producer_commit_commit

ConsumerNext ==
    \/ Consumer_peek
    \/ Consumer_peek_with_payload
    \/ Consumer_get_pool_idx
    \/ Consumer_try_read
    \/ Consumer_read_done
    \/ Consumer_pop
    \/ Consumer_enqueue_return_stage
    \/ Consumer_enqueue_return_is_vacant
    \/ Consumer_enqueue_return_commit

\* Any sequence of calls the two handles allow, from a new pool.
PoolInit ==
    /\ N \in PoolDepths
    /\ RingNew
    /\ PoolNew("free", "free")

PoolNext ==
    \/ SharedPool_split_prod
    \/ SharedPool_split_cons
    \/ SharedPool_split
    \/ Producer_stage
    \/ ProducerNext
    \/ ConsumerNext

PoolSpec == PoolInit /\ [][PoolNext]_vars

\* tests/integration_test.rs::test_threads: SHARED_POOL.split().unwrap(), then
\* the producer thread and the consumer thread
ThreadInit ==
    /\ N \in PoolDepths
    /\ RingNew
    /\ PoolNew("stage_with_payload", "peek")

Main_split ==
    /\ handles.ret = "none"
    /\ SharedPool_split

ThreadNext ==
    \/ Main_split
    \/ ProducerNext
    \/ ConsumerNext

ThreadSpec == ThreadInit /\ [][ThreadNext]_vars

\* ------------------------------------------------------------------------
\* Properties of the shared pool
\* ------------------------------------------------------------------------
\* the number of entries of a queue that name slot i
Naming(rb, i) ==
    Cardinality({k \in 1..Len(rb_items(rb)) : rb_items(rb)[k] = Some(i)})

\* the index the producer holds for the message it is staging: the PoolIndex
\* of the staged message, or the index taken from the return queue that
\* stage_with_payload is about to write into it
ProducerHolds(i) ==
    \/ /\ producer.staged # None
       /\ alloc_rbuf.buffer_ucell[unwrap(producer.staged)] = Some(i)
    \/ /\ producer.pc = "stage_with_payload_stage"
       /\ producer.idx = Some(i)

C6_Conservation ==
    return_rbuf.has_split_prod =>
        \A i \in 0..(N - 1) :
            Naming(alloc_rbuf, i)
            + (IF ProducerHolds(i) /\ pool[i].owner = "Consumer" THEN 1 ELSE 0)
            + Naming(return_rbuf, i)
            + (IF ProducerHolds(i) /\ pool[i].owner # "Consumer" THEN 1 ELSE 0)
            = 1

\* C7: under test_threads, with more transfers than the pool has slots, no
\* unwrap or assertion of either thread fails (so every try_read on the slot
\* of a peeked message succeeds), the value the consumer reads is the next of
\* 0, 1, 2, ..., and the slot the producer is about to write is owned by the
\* producer and named by no committed message.
C7_PayloadTransfer ==
    /\ producer.prog # "panic" /\ producer.pc # "panic"
    /\ consumer.prog # "panic" /\ consumer.pc # "panic"
    /\ consumer.seen # None => unwrap(consumer.seen) + 1 = consumer.expected
    /\ consumer.expected <= producer.count
    /\ consumer.prog = "exit" => consumer.expected = total_transfer
    /\ (producer.prog = "write" /\ producer.inner # None) =>
          /\ pool[unwrap(producer.inner)].owner = "Producer"
          /\ Naming(alloc_rbuf, unwrap(producer.inner)) = 0
          /\ consumer.payload # producer.inner

\* both threads have left their loops after total_transfer payloads
C7_Witness ==
    /\ N = MaxPool
    /\ total_transfer > N
    /\ producer.prog = "exit"
    /\ consumer.prog = "exit"
    /\ consumer.seen = Some(total_transfer - 1)

\* C8: when the staged message carries a valid PoolIndex i, commit tests slot
\* i; if slot i is not in state Consumer, commit returns
\* PayloadNotConsumerOwned and leaves both queues and every slot as they
\* were; if slot i is in state Consumer (after write_done), commit goes on to
\* the ring's commit, which with room in the alloc queue returns Ok and
\* advances the alloc write cursor by one.
C8_CommitGate ==
    [][ /\ Producer_commit_stage =>
              LET cell == alloc_rbuf.buffer_ucell[rb_stage_slot(alloc_rbuf)] IN
              /\ alloc_rbuf' = alloc_rbuf /\ return_rbuf' = return_rbuf /\ pool' = pool
              /\ (rb_len(alloc_rbuf) < N /\ cell # Uninit /\ unwrap(cell) < N) =>
                    (producer'.pc = "commit_gate" /\ producer'.gate = cell)
        /\ (Producer_commit_gate /\ pool[unwrap(producer.gate)].owner # "Consumer") =>
              /\ producer'.pc = "idle"
              /\ producer'.ret = "PayloadNotConsumerOwned"
              /\ alloc_rbuf' = alloc_rbuf /\ return_rbuf' = return_rbuf /\ pool' = pool
        /\ (Producer_commit_gate /\ pool[unwrap(producer.gate)].owner = "Consumer") =>
              /\ producer'.pc = "commit_commit"
              /\ alloc_rbuf' = alloc_rbuf /\ return_rbuf' = return_rbuf /\ pool' = pool
        /\ (Producer_commit_commit /\ rb_len(alloc_rbuf) < N) =>
              /\ producer'.pc = "idle"
              /\ producer'.ret = "Ok"
              /\ alloc_rbuf'.wr_idx = wrap_inc(alloc_rbuf.wr_idx, N)
              /\ alloc_rbuf'.rd_idx = alloc_rbuf.rd_idx
              /\ rb_len(alloc_rbuf') = rb_len(alloc_rbuf) + 1
              /\ return_rbuf' = return_rbuf /\ pool' = pool
      ]_vars

\* commit has returned PayloadNotConsumerOwned for a staged message whose slot
\* the producer had claimed with try_write and not passed on with write_done
C8_Witness ==
    /\ producer.pc = "idle"
    /\ producer.ret = "PayloadNotConsumerOwned"
    /\ producer.staged # None
    /\ rb_len(alloc_rbuf) = 0
    /\ LET cell == alloc_rbuf.buffer_ucell[unwrap(producer.staged)] IN
       cell # Uninit /\ unwrap(cell) < N /\ pool[unwrap(cell)].owner = "Producer"

\* C9: the return-queue test of stage_with_payload returns PoolFull exactly
\* when the return queue holds no entry, whatever the states of the slots; it
\* is the only step that returns PoolFull; and it changes neither queue nor
\* any slot.
C9_PoolFullIffReturnEmpty ==
    [][ /\ Producer_get_pool_item_peek =>
              /\ (producer'.ret = "PoolFull") <=> (rb_len(return_rbuf) = 0)
              /\ (producer'.pc = "idle") <=> (rb_len(return_rbuf) = 0)
              /\ alloc_rbuf' = alloc_rbuf /\ return_rbuf' = return_rbuf /\ pool' = pool
        /\ (producer'.ret = "PoolFull" /\ producer.ret # "PoolFull") =>
              Producer_get_pool_item_peek
      ]_vars

\* stage_with_payload has returned PoolFull although a slot that was written
\* is Vacant again: the consumer has called read_done on it and popped its
\* message, and has not returned its index
C9_Witness ==
    /\ producer.pc = "idle"
    /\ producer.ret = "PoolFull"
    /\ rb_len(return_rbuf) = 0
    /\ rb_len(alloc_rbuf) = 0
    /\ \A i \in 0..(N - 1) : pool[i].owner = "Vacant" /\ pool[i].ucell # Uninit

\* C10: under test_threads, the consumer's enqueue_return of index i, after
\* read_done and pop, passes its is_vacant assertion and, on an empty return
\* queue (the pool exhausted), returns Ok and leaves i as the only entry; the
\* next stage_with_payload takes the head of the return queue, passes its
\* assertion, pops that entry and, with room in the alloc queue, returns Ok
\* with a staged message whose PoolIndex is the valid index taken.
C10_SlotRecycling ==
    [][ /\ Consumer_enqueue_return_is_vacant => consumer'.pc = "enqueue_return_commit"
        /\ (Consumer_enqueue_return_commit /\ rb_len(return_rbuf) = 0) =>
              /\ consumer'.ret = "Ok"
              /\ rb_items(return_rbuf') = <<consumer.idx>>
        /\ (Producer_get_pool_item_peek /\ rb_len(return_rbuf) > 0) =>
              /\ producer'.pc = "get_pool_item_is_vacant"
              /\ producer'.idx = Head(rb_items(return_rbuf))
        /\ Producer_get_pool_item_is_vacant => producer'.pc = "get_pool_item_pop"
        /\ Producer_get_pool_item_pop =>
              /\ producer'.pc = "stage_with_payload_stage"
              /\ producer.idx = Head(rb_items(return_rbuf))
              /\ rb_items(return_rbuf') = Tail(rb_items(return_rbuf))
        /\ (Producer_stage_with_payload_stage /\ rb_len(alloc_rbuf) < N) =>
              /\ producer'.ret = "Ok"
              /\ producer'.staged # None
              /\ alloc_rbuf'.buffer_ucell[unwrap(producer'.staged)] = producer.idx
              /\ is_valid(unwrap(producer.idx))
              /\ producer'.payload = producer.idx
      ]_vars

\* the pool was exhausted (PoolFull was returned when all N indices were out
\* and none returned), the consumer has returned the index of the one message
\* it consumed, and the following stage_with_payload has staged that index
C10_Witness ==
    /\ N = MaxPool
    /\ producer.pool_full
    /\ producer.pc = "idle" /\ producer.ret = "Ok" /\ producer.prog = "try_write"
    /\ producer.count = N
    /\ consumer.expected = 1
    /\ consumer.pc = "idle" /\ consumer.prog = "peek" /\ consumer.ret = "Ok"
    /\ producer.staged # None
    /\ alloc_rbuf.buffer_ucell[unwrap(producer.staged)] = consumer.idx

C12_ReturnQueueSizing ==
    /\ consumer.ret # "ReturnBufFull"
    /\ Len(rb_items(return_rbuf)) <= N
    /\ (consumer.prog = "enqueue_return") =>
          (rb_len(return_rbuf) < N /\ ~rb_is_full(return_rbuf))

\* the consumer has returned an index and the return queue holds all N
\* indices again, at cursors that have moved on from the seeding
C12_Witness ==
    /\ N = MaxPool
    /\ consumer.pc = "idle" /\ consumer.ret = "Ok" /\ consumer.prog = "peek"
    /\ consumer.expected >= 1
    /\ rb_len(return_rbuf) = N
    /\ return_rbuf.rd_idx # 0

\* some entry of the queue names slot i
Names(rb, i) ==
    LET items == rb_items(rb) IN \E k \in 1..Len(items) : items[k] = Some(i)

\* slot i of a seeded pool is Vacant and is named by no entry of either queue
\* and by no message the producer holds
Lost(i) ==
    /\ return_rbuf.has_split_prod
    /\ pool[i].owner = "Vacant"
    /\ ~ProducerHolds(i)
    /\ ~Names(return_rbuf, i)
    /\ ~Names(alloc_rbuf, i)

shared == pool[0]

SingletonInit ==
    /\ N = 1
    /\ RingNew
    /\ PoolNew("free", "free")

SingletonCalled(op) == [handles EXCEPT !.calls = handles.calls + 1, !.ret = op]

\* shared.is_vacant()
Singleton_is_vacant ==
    /\ handles.calls < MaxCalls
    /\ producer' = [producer EXCEPT !.ret = IF is_vacant(shared) THEN "true" ELSE "false"]
    /\ handles' = SingletonCalled("is_vacant")
    /\ UNCHANGED <<N, ringvars, alloc_rbuf, return_rbuf, pool, consumer>>

\* shared.try_write()
Singleton_try_write ==
    /\ handles.calls < MaxCalls
    /\ LET res == try_write(shared) IN
          /\ pool' = [pool EXCEPT ![0] = res.s]
          /\ producer' = [producer EXCEPT
                            !.inner = IF res.ok THEN Some(0) ELSE producer.inner,
                            !.ret = IF res.ok THEN "Some" ELSE "None"]
    /\ handles' = SingletonCalled("try_write")
    /\ UNCHANGED <<N, ringvars, alloc_rbuf, return_rbuf, consumer>>

\* payload.id = 42: the write through the reference try_write returned, made
\* before write_done is called
Singleton_write ==
    /\ producer.inner # None
    /\ \E v \in Values :
          pool' = [pool EXCEPT ![unwrap(producer.inner)].ucell = Some(v)]
    /\ UNCHANGED <<N, ringvars, alloc_rbuf, return_rbuf, handles, producer, consumer>>

\* shared.write_done()
Singleton_write_done ==
    /\ handles.calls < MaxCalls
    /\ LET res == write_done(shared) IN
          /\ pool' = [pool EXCEPT ![0] = res.s]
          /\ producer' = [producer EXCEPT
                            !.inner = None,
                            !.ret = IF res.ok THEN "Ok" ELSE "NotOwned"]
    /\ handles' = SingletonCalled("write_done")
    /\ UNCHANGED <<N, ringvars, alloc_rbuf, return_rbuf, consumer>>

\* shared.try_read(), and the read of the value through the reference
Singleton_try_read ==
    /\ handles.calls < MaxCalls
    /\ IF try_read(shared)
       THEN \E v \in assume_init(shared.ucell) :
               consumer' = [consumer EXCEPT !.seen = Some(v), !.ret = "Some"]
       ELSE consumer' = [consumer EXCEPT !.seen = None, !.ret = "None"]
    /\ handles' = SingletonCalled("try_read")
    /\ UNCHANGED <<N, ringvars, alloc_rbuf, return_rbuf, pool, producer>>

\* shared.read_done()
Singleton_read_done ==
    /\ handles.calls < MaxCalls
    /\ LET res == read_done(shared) IN
          /\ pool' = [pool EXCEPT ![0] = res.s]
          /\ consumer' = [consumer EXCEPT !.ret = IF res.ok THEN "Ok" ELSE "NotOwned"]
    /\ handles' = SingletonCalled("read_done")
    /\ UNCHANGED <<N, ringvars, alloc_rbuf, return_rbuf, producer>>

SingletonNext ==
    \/ Singleton_is_vacant
    \/ Singleton_try_write
    \/ Singleton_write
    \/ Singleton_write_done
    \/ Singleton_try_read
    \/ Singleton_read_done

SingletonSpec == SingletonInit /\ [][SingletonNext]_vars

\* C14: the owner of a SharedSingleton is Vacant before the first call; it
\* changes only from Vacant to Producer in a try_write that returns a
\* reference, from Producer to Consumer in a write_done that returns Ok, and
\* from Consumer to Vacant in a read_done that returns Ok, and each of these
\* calls makes that change; is_vacant, try_read and every call that fails
\* leave the owner and the stored value as they are.
C14_SingletonStateMachine ==
    [][ /\ handles.calls = 0 => shared.owner = "Vacant"
        /\ shared'.owner # shared.owner =>
              \/ /\ shared.owner = "Vacant" /\ shared'.owner = "Producer"
                 /\ handles'.ret = "try_write" /\ producer'.ret = "Some"
              \/ /\ shared.owner = "Producer" /\ shared'.owner = "Consumer"
                 /\ handles'.ret = "write_done" /\ producer'.ret = "Ok"
              \/ /\ shared.owner = "Consumer" /\ shared'.owner = "Vacant"
                 /\ handles'.ret = "read_done" /\ consumer'.ret = "Ok"
        /\ (Singleton_try_write /\ producer'.ret = "Some") =>
              (shared.owner = "Vacant" /\ shared'.owner = "Producer")
        /\ (Singleton_write_done /\ producer'.ret = "Ok") =>
              (shared.owner = "Producer" /\ shared'.owner = "Consumer")
        /\ (Singleton_read_done /\ consumer'.ret = "Ok") =>
              (shared.owner = "Consumer" /\ shared'.owner = "Vacant")
        /\ (Singleton_is_vacant \/ Singleton_try_read) => pool' = pool
        /\ (Singleton_try_write /\ producer'.ret = "None") => pool' = pool
        /\ (Singleton_write_done /\ producer'.ret = "NotOwned") => pool' = pool
        /\ (Singleton_read_done /\ consumer'.ret = "NotOwned") => pool' = pool
      ]_vars

\* the cycle Vacant -> Producer -> Consumer -> Vacant has been gone through
\* with a value written, and a second try_write has then succeeded
C14_Witness ==
    /\ handles.ret = "try_write" /\ producer.ret = "Some"
    /\ shared.owner = "Producer"
    /\ shared.ucell # Uninit
    /\ consumer.ret = "Ok"
    /\ consumer.seen # None

\* C15: the result of each SharedSingleton call is fixed by the owner at the
\* call: try_write returns a reference iff the owner is Vacant; write_done
\* returns Ok iff it is Producer and NotOwned otherwise; try_read returns a
\* reference iff it is Consumer, what is read through it is the value the
\* producer wrote, and a try_read made next returns a reference again;
\* read_done returns Ok iff the owner is Consumer and NotOwned otherwise, and
\* after its Ok a try_read returns None.  The stored value changes only by
\* the producer's write, made while the owner is Producer.
C15_SingletonResults ==
    [][ /\ Singleton_try_write =>
              /\ producer'.ret \in {"Some", "None"}
              /\ producer'.ret = "Some" <=> shared.owner = "Vacant"
        /\ Singleton_write_done =>
              /\ producer'.ret \in {"Ok", "NotOwned"}
              /\ producer'.ret = "Ok" <=> shared.owner = "Producer"
        /\ Singleton_try_read =>
              /\ consumer'.ret \in {"Some", "None"}
              /\ consumer'.ret = "Some" <=> shared.owner = "Consumer"
              /\ consumer'.ret = "None" => consumer'.seen = None
              /\ (consumer'.ret = "Some" /\ shared.ucell # Uninit) =>
                    consumer'.seen = shared.ucell
              /\ consumer'.ret = "Some" => try_read(shared')
        /\ Singleton_read_done =>
              /\ consumer'.ret \in {"Ok", "NotOwned"}
              /\ consumer'.ret = "Ok" <=> shared.owner = "Consumer"
              /\ consumer'.ret = "Ok" => ~try_read(shared')
        /\ shared'.ucell # shared.ucell =>
              /\ Singleton_write
              /\ shared.owner = "Producer"
      ]_vars

\* try_read has returned a reference on a slot the producer wrote and passed
\* on, after a try_write that was refused, and the value read is the value
\* written
C15_Witness ==
    /\ handles.ret = "try_read" /\ consumer.ret = "Some"
    /\ producer.ret = "None"
    /\ shared.owner = "Consumer"
    /\ shared.ucell = Some(MaxVal - 1)
    /\ consumer.seen = shared.ucell
    /\ handles.calls >= 5

\* ---------------------------------------------------------------------------
\* A RingBuf on its own, as in ringbuf.rs::test_mut_split: `ringbuf` is
\* alloc_rbuf, and one caller makes at most MaxCalls calls of split_prod,
\* split_cons and split on it and of writer_front (with a write), commit and
\* pop on the handles it was given.  handles.producer and handles.consumer
\* say which handles the caller has; producer.count and consumer.expected
\* count the Producer and Consumer handles the RingBuf has created.
\* ---------------------------------------------------------------------------
\* each split yields [ok, rb]: whether it succeeded and the RingBuf afterwards

\* variant: the Consumer handle is created and the latch is left clear
rb_split_cons_unlatched(rb) ==
    IF rb.has_split_cons THEN [ok |-> FALSE, rb |-> rb]
    ELSE [ok |-> TRUE, rb |-> rb]

\* RingBuf::split_prod
rb_split_prod(rb) ==
    IF rb.has_split_prod THEN [ok |-> FALSE, rb |-> rb]
    ELSE [ok |-> TRUE, rb |-> [rb EXCEPT !.has_split_prod = TRUE]]

\* RingBuf::split_cons
rb_split_cons(rb) ==
    IF rb.has_split_cons THEN [ok |-> FALSE, rb |-> rb]
    ELSE [ok |-> TRUE, rb |-> [rb EXCEPT !.has_split_cons = TRUE]]

Created(ok) == IF ok THEN 1 ELSE 0

RingSplitResult(ok) == IF ok THEN "Ok" ELSE "Err"

RingSplitInit ==
    /\ N \in PoolDepths
    /\ RingNew
    /\ PoolNew("free", "free")

RingBuf_split_prod ==
    /\ handles.calls < MaxCalls
    /\ LET res == rb_split_prod(alloc_rbuf) IN
          /\ alloc_rbuf' = res.rb
          /\ producer' = [producer EXCEPT !.count = producer.count + Created(res.ok)]
          /\ handles' = [handles EXCEPT !.calls = handles.calls + 1,
                                        !.producer = handles.producer \/ res.ok,
                                        !.ret = RingSplitResult(res.ok)]
    /\ UNCHANGED <<N, ringvars, return_rbuf, pool, consumer>>

RingBuf_split_cons ==
    /\ handles.calls < MaxCalls
    /\ LET res == rb_split_cons(alloc_rbuf) IN
          /\ alloc_rbuf' = res.rb
          /\ consumer' = [consumer EXCEPT
                            !.expected = consumer.expected + Created(res.ok)]
          /\ handles' = [handles EXCEPT !.calls = handles.calls + 1,
                                        !.consumer = handles.consumer \/ res.ok,
                                        !.ret = RingSplitResult(res.ok)]
    /\ UNCHANGED <<N, ringvars, return_rbuf, pool, producer>>

\* RingBuf::split: split_prod and split_cons are both called, and the two
\* handles are handed out only when both succeeded; a handle created by the
\* one that succeeded alone is dropped
RingBuf_split ==
    /\ handles.calls < MaxCalls
    /\ LET p == rb_split_prod(alloc_rbuf)
           c == rb_split_cons(p.rb)
           ok == p.ok /\ c.ok
       IN /\ alloc_rbuf' = c.rb
          /\ producer' = [producer EXCEPT !.count = producer.count + Created(p.ok)]
          /\ consumer' = [consumer EXCEPT
                            !.expected = consumer.expected + Created(c.ok)]
          /\ handles' = [handles EXCEPT !.calls = handles.calls + 1,
                                        !.producer = handles.producer \/ ok,
                                        !.consumer = handles.consumer \/ ok,
                                        !.ret = RingSplitResult(ok)]
    /\ UNCHANGED <<N, ringvars, return_rbuf, pool>>

\* producer.writer_front() and the write through it: *v = 42
RingBuf_writer_front ==
    /\ handles.calls < MaxCalls
    /\ handles.producer
    /\ IF rb_is_full(alloc_rbuf) THEN alloc_rbuf' = alloc_rbuf
       ELSE \E v \in Values :
               alloc_rbuf' = rb_write(alloc_rbuf, rb_stage_slot(alloc_rbuf), v)
    /\ handles' = [handles EXCEPT !.calls = handles.calls + 1]
    /\ UNCHANGED <<N, ringvars, return_rbuf, pool, producer, consumer>>

\* producer.commit()
RingBuf_commit ==
    /\ handles.calls < MaxCalls
    /\ handles.producer
    /\ alloc_rbuf' = IF rb_is_full(alloc_rbuf) THEN alloc_rbuf ELSE rb_commit(alloc_rbuf)
    /\ producer' = [producer EXCEPT
                      !.ret = IF rb_is_full(alloc_rbuf) THEN "BuffFull" ELSE "Ok"]
    /\ handles' = [handles EXCEPT !.calls = handles.calls + 1]
    /\ UNCHANGED <<N, ringvars, return_rbuf, pool, consumer>>

\* consumer.pop()
RingBuf_pop ==
    /\ handles.calls < MaxCalls
    /\ handles.consumer
    /\ alloc_rbuf' = IF rb_is_empty(alloc_rbuf) THEN alloc_rbuf ELSE rb_pop(alloc_rbuf)
    /\ consumer' = [consumer EXCEPT
                      !.ret = IF rb_is_empty(alloc_rbuf) THEN "BuffEmpty" ELSE "Ok"]
    /\ handles' = [handles EXCEPT !.calls = handles.calls + 1]
    /\ UNCHANGED <<N, ringvars, return_rbuf, pool, producer>>

RingSplitNext ==
    \/ RingBuf_split_prod
    \/ RingBuf_split_cons
    \/ RingBuf_split
    \/ RingBuf_writer_front
    \/ RingBuf_commit
    \/ RingBuf_pop

RingSplitSpec == RingSplitInit /\ [][RingSplitNext]_vars

\* C16: both latches of a RingBuf are false before the first call and never
\* go from true to false; split_prod (split_cons) returns Ok iff its latch is
\* clear and then sets it; split returns Ok iff both latches are clear, and
\* after any call of split both are set, so that a second split fails; at
\* most one Producer and at most one Consumer handle are ever created.
C16_RingBufOneShotSplit ==
    [][ /\ handles.calls = 0 =>
              (~alloc_rbuf.has_split_prod /\ ~alloc_rbuf.has_split_cons)
        /\ alloc_rbuf.has_split_prod => alloc_rbuf'.has_split_prod
        /\ alloc_rbuf.has_split_cons => alloc_rbuf'.has_split_cons
        /\ RingBuf_split_prod =>
              /\ handles'.ret = "Ok" <=> ~alloc_rbuf.has_split_prod
              /\ alloc_rbuf'.has_split_prod
              /\ alloc_rbuf'.has_split_cons = alloc_rbuf.has_split_cons
        /\ RingBuf_split_cons =>
              /\ handles'.ret = "Ok" <=> ~alloc_rbuf.has_split_cons
              /\ alloc_rbuf'.has_split_cons
              /\ alloc_rbuf'.has_split_prod = alloc_rbuf.has_split_prod
        /\ RingBuf_split =>
              /\ handles'.ret = "Ok" <=>
                    (~alloc_rbuf.has_split_prod /\ ~alloc_rbuf.has_split_cons)
              /\ alloc_rbuf'.has_split_prod /\ alloc_rbuf'.has_split_cons
        /\ producer.count <= 1 /\ producer'.count <= 1
        /\ consumer.expected <= 1 /\ consumer'.expected <= 1
        /\ producer'.count = 1 <=> alloc_rbuf'.has_split_prod
        /\ consumer'.expected = 1 <=> alloc_rbuf'.has_split_cons
      ]_vars

\* a second split has failed after a first one that succeeded, and both
\* handles have been used
C16_Witness ==
    /\ handles.producer /\ handles.consumer
    /\ handles.ret = "Err"
    /\ alloc_rbuf.has_split_prod /\ alloc_rbuf.has_split_cons
    /\ producer.count = 1 /\ consumer.expected = 1
    /\ producer.ret = "Ok" /\ consumer.ret = "Ok"

\* C17: split_prod of a SharedPool returns AlreadySplit iff the producer end
\* has been split before, split_cons iff the consumer end has, and split iff
\* either has; after a call of one of them its end is split, so a second call
\* returns AlreadySplit.  A rejected split_cons changes neither queue.  The
\* return queue is seeded only in the step that splits the consumer end, with
\* N entries, and no split writes to it afterwards.
C17_PoolOneShotSplit ==
    [][ /\ SharedPool_split_prod =>
              /\ handles'.ret = "AlreadySplit" <=>
                    (alloc_rbuf.has_split_prod \/ return_rbuf.has_split_cons)
              /\ handles'.ret \in {"Ok", "AlreadySplit"}
              /\ alloc_rbuf'.has_split_prod /\ return_rbuf'.has_split_cons
              /\ return_rbuf'.wr_idx = return_rbuf.wr_idx
        /\ SharedPool_split_cons =>
              /\ handles'.ret = "AlreadySplit" <=>
                    (alloc_rbuf.has_split_cons \/ return_rbuf.has_split_prod)
              /\ handles'.ret \in {"Ok", "AlreadySplit"}
              /\ alloc_rbuf'.has_split_cons /\ return_rbuf'.has_split_prod
              /\ handles'.ret = "AlreadySplit" =>
                    (return_rbuf' = return_rbuf /\ alloc_rbuf' = alloc_rbuf)
        /\ SharedPool_split =>
              /\ handles'.ret = "AlreadySplit" <=>
                    \/ alloc_rbuf.has_split_prod \/ return_rbuf.has_split_cons
                    \/ alloc_rbuf.has_split_cons \/ return_rbuf.has_split_prod
              /\ handles'.ret \in {"Ok", "AlreadySplit"}
              /\ alloc_rbuf'.has_split_prod /\ return_rbuf'.has_split_cons
              /\ alloc_rbuf'.has_split_cons /\ return_rbuf'.has_split_prod
        /\ (SharedPool_split_prod \/ SharedPool_split_cons \/ SharedPool_split) =>
              IF ~return_rbuf.has_split_prod /\ return_rbuf'.has_split_prod
              THEN /\ rb_len(return_rbuf) = 0
                   /\ rb_len(return_rbuf') = N
                   /\ return_rbuf'.rd_idx = return_rbuf.rd_idx
              ELSE /\ return_rbuf'.wr_idx = return_rbuf.wr_idx
                   /\ return_rbuf'.rd_idx = return_rbuf.rd_idx
                   /\ return_rbuf'.buffer_ucell = return_rbuf.buffer_ucell
        /\ alloc_rbuf.has_split_prod => alloc_rbuf'.has_split_prod
        /\ alloc_rbuf.has_split_cons => alloc_rbuf'.has_split_cons
        /\ return_rbuf.has_split_prod => return_rbuf'.has_split_prod
        /\ return_rbuf.has_split_cons => return_rbuf'.has_split_cons
      ]_vars

\* a split has been rejected on a pool whose producer has taken an index from
\* the seeded return queue: the queue has not been filled again
C17_Witness ==
    /\ N = MaxPool
    /\ handles.ret = "AlreadySplit"
    /\ handles.producer /\ handles.consumer
    /\ handles.calls >= 4
    /\ return_rbuf.rd_idx = 1
    /\ return_rbuf.wr_idx = N
    /\ rb_len(return_rbuf) = N - 1

\* the cursors and the storage of the ring are left as they are
RingUnchanged == UNCHANGED <<rd_idx, wr_idx, buffer_ucell>>

\* C18: on a full ring commit and push return BuffFull and alloc returns None,
\* on an empty ring pop returns BuffEmpty and peek and peek_mut return None,
\* and each of these leaves rd_idx, wr_idx and the storage unchanged.  On a
\* ring that is not full commit and push go on to return Ok with wr_idx
\* advanced by one, and on a ring that is not empty pop goes on to return Ok
\* with rd_idx advanced by one.
C18_RingErrorOutcomes ==
    [][ /\ ((commit_check \/ push_check) /\ is_full(rd_idx, wr_idx, N)) =>
              (p_ret' = "BuffFull" /\ p_pc' = "idle" /\ RingUnchanged)
        /\ (alloc /\ is_full(rd_idx, wr_idx, N)) =>
              (p_ret' = "None" /\ p_ref' = None /\ RingUnchanged)
        /\ (pop_check /\ is_empty(rd_idx, wr_idx, N)) =>
              (c_ret' = "BuffEmpty" /\ c_pc' = "idle" /\ RingUnchanged)
        /\ ((peek \/ peek_mut) /\ is_empty(rd_idx, wr_idx, N)) =>
              (c_ret' = "None" /\ c_ref' = None /\ RingUnchanged)
        /\ (commit_check /\ ~is_full(rd_idx, wr_idx, N)) =>
              (p_pc' = "commit_inc" /\ RingUnchanged)
        /\ (push_check /\ ~is_full(rd_idx, wr_idx, N)) =>
              (p_pc' = "push_write" /\ RingUnchanged)
        /\ (commit_inc \/ push_inc) =>
              /\ p_ret' = "Ok" /\ p_pc' = "idle"
              /\ wr_idx' = wrap_inc(wr_idx, N)
              /\ len(rd_idx, wr_idx', N) = len(rd_idx, wr_idx, N) + 1
              /\ UNCHANGED <<rd_idx, buffer_ucell>>
        /\ (pop_check /\ ~is_empty(rd_idx, wr_idx, N)) =>
              (c_pc' = "pop_inc" /\ RingUnchanged)
        /\ pop_inc =>
              /\ c_ret' = "Ok" /\ c_pc' = "idle"
              /\ rd_idx' = wrap_inc(rd_idx, N)
              /\ len(rd_idx', wr_idx, N) = len(rd_idx, wr_idx, N) - 1
              /\ UNCHANGED <<wr_idx, buffer_ucell>>
      ]_vars

\* the consumer has been refused on the empty ring and the producer has then
\* been refused on the ring it filled
C18_Witness ==
    /\ N = MaxN
    /\ c_ret = "BuffEmpty" /\ c_pc = "idle"
    /\ p_ret = "BuffFull" /\ p_pc = "idle"
    /\ Len(fifo) = N
    /\ wr_idx = N /\ rd_idx = 0

\* the items of the ring between rd_idx and wr_idx, oldest first: what peek
\* and pop go through
LiveItems ==
    rb_items([rd_idx |-> rd_idx, wr_idx |-> wr_idx, buffer_ucell |-> buffer_ucell])

\* C19: alloc changes neither cursor nor the storage; whenever it returns a
\* slot it is slot mask(wr_idx), the slot a reference still held from an
\* earlier alloc names, and wr_idx moves only in the increment of a commit or
\* a push; a write through the staged reference changes no item between
\* rd_idx and wr_idx, and the increment of the commit appends the slot's
\* content to them.
C19_StageIdempotent ==
    [][ /\ alloc =>
              /\ RingUnchanged
              /\ p_ret' = "Some" => p_ref' = Some(mask(wr_idx, N))
              /\ (p_ret' = "Some" /\ p_ref # None) => p_ref' = p_ref
        /\ p_ref # None => p_ref = Some(mask(wr_idx, N))
        /\ wr_idx' # wr_idx => (commit_inc \/ push_inc)
        /\ write_staged =>
              /\ buffer_ucell'[mask(wr_idx, N)] = Some(nextVal)
              /\ LiveItems' = LiveItems
              /\ UNCHANGED <<rd_idx, wr_idx>>
        /\ commit_inc =>
              LiveItems' = Append(LiveItems, buffer_ucell[mask(wr_idx, N)])
        /\ (peek /\ c_ret' = "Some") =>
              /\ LiveItems # <<>>
              /\ buffer_ucell[unwrap(c_ref')] = Head(LiveItems)
      ]_vars

\* the producer holds the reference of slot mask(wr_idx) and has written
\* through it, on a ring whose write cursor has wrapped; the consumer, peeking
\* at the older items, has read the oldest of them and not the value written
C19_Witness ==
    /\ N = MaxN
    /\ p_ref = Some(mask(wr_idx, N)) /\ p_ret = "Some"
    /\ buffer_ucell[mask(wr_idx, N)] = Some(nextVal)
    /\ Len(LiveItems) = N - 1
    /\ wr_idx >= N
    /\ c_ref = Some(mask(rd_idx, N)) /\ c_seen = Head(LiveItems)
    /\ c_seen # Some(nextVal)

\* ---------------------------------------------------------------------------
\* The two tests one after the other: tests/integration_test.rs::test_threads
\* on the pool, and when both of its threads have left their loops the
\* operations of ringbuf_ref.rs::test_operations on the ring, together with
\* the four queries of RingBufRef.
\* ---------------------------------------------------------------------------
ThreadsDone == producer.prog = "exit" /\ consumer.prog = "exit"

\* RingBufRef::len; the result is left in p_ret
RingBufRef_len ==
    /\ p_pc = "idle"
    /\ p_ret' = ToString(len(rd_idx, wr_idx, N))
    /\ UNCHANGED poolvars
    /\ UNCHANGED <<N, rd_idx, wr_idx, buffer_ucell, p_pc, p_ref, c_pc, c_ref,
                   c_seen, c_ret, nextVal, fifo>>

\* RingBufRef::is_empty
RingBufRef_is_empty ==
    /\ c_pc = "idle"
    /\ c_ret' = IF is_empty(rd_idx, wr_idx, N) THEN "true" ELSE "false"
    /\ UNCHANGED poolvars
    /\ UNCHANGED <<N, rd_idx, wr_idx, buffer_ucell, p_pc, p_ref, p_ret, c_pc,
                   c_ref, c_seen, nextVal, fifo>>

\* RingBufRef::is_full
RingBufRef_is_full ==
    /\ p_pc = "idle"
    /\ p_ret' = IF is_full(rd_idx, wr_idx, N) THEN "true" ELSE "false"
    /\ UNCHANGED poolvars
    /\ UNCHANGED <<N, rd_idx, wr_idx, buffer_ucell, p_pc, p_ref, c_pc, c_ref,
                   c_seen, c_ret, nextVal, fifo>>

\* RingBufRef::capacity: N
RingBufRef_capacity ==
    /\ c_pc = "idle"
    /\ c_ret' = ToString(N)
    /\ UNCHANGED poolvars
    /\ UNCHANGED <<N, rd_idx, wr_idx, buffer_ucell, p_pc, p_ref, p_ret, c_pc,
                   c_ref, c_seen, nextVal, fifo>>

RingQueries ==
    \/ RingBufRef_len
    \/ RingBufRef_is_empty
    \/ RingBufRef_is_full
    \/ RingBufRef_capacity

FrameNext ==
    \/ ThreadNext
    \/ ThreadsDone /\ Next
    \/ ThreadsDone /\ RingQueries

FrameSpec == ThreadInit /\ [][FrameNext]_vars

\* the steps of the producer side and of the consumer side of the ring
RingProducerSide ==
    \/ alloc \/ write_staged
    \/ commit_check \/ commit_inc
    \/ push_check \/ push_write \/ push_inc

RingConsumerSide == peek \/ peek_mut \/ read_peeked \/ pop_check \/ pop_inc

\* C20: the producer-side steps of the ring leave rd_idx unchanged and change
\* the storage at no slot other than mask(wr_idx); the consumer-side steps
\* leave wr_idx unchanged; len, is_empty, is_full and capacity change neither
\* cursor nor the storage; rd_idx moves only in pop and wr_idx only in commit
\* and push.  In the pool the steps of the Producer leave the alloc queue's
\* rd_idx and the return queue's wr_idx unchanged, the steps of the Consumer
\* leave the alloc queue's wr_idx and the return queue's rd_idx unchanged, and
\* a cursor moves only in a step of its side (the return queue's wr_idx also
\* in the seeding of split_cons, which makes the Consumer) and by one.
C20_SingleWriterFrame ==
    [][ /\ RingProducerSide =>
              /\ rd_idx' = rd_idx
              /\ \A slot \in 0..(N - 1) :
                    slot # mask(wr_idx, N) => buffer_ucell'[slot] = buffer_ucell[slot]
        /\ RingConsumerSide => wr_idx' = wr_idx
        /\ RingQueries => RingUnchanged
        /\ rd_idx' # rd_idx => pop_inc
        /\ wr_idx' # wr_idx => (commit_inc \/ push_inc)
        /\ buffer_ucell' # buffer_ucell => (write_staged \/ push_write)
        /\ ProducerNext =>
              /\ alloc_rbuf'.rd_idx = alloc_rbuf.rd_idx
              /\ return_rbuf'.wr_idx = return_rbuf.wr_idx
        /\ ConsumerNext =>
              /\ alloc_rbuf'.wr_idx = alloc_rbuf.wr_idx
              /\ return_rbuf'.rd_idx = return_rbuf.rd_idx
        /\ alloc_rbuf'.wr_idx # alloc_rbuf.wr_idx =>
              (ProducerNext /\ alloc_rbuf'.wr_idx = wrap_inc(alloc_rbuf.wr_idx, N))
        /\ return_rbuf'.rd_idx # return_rbuf.rd_idx =>
              (ProducerNext /\ return_rbuf'.rd_idx = wrap_inc(return_rbuf.rd_idx, N))
        /\ alloc_rbuf'.rd_idx # alloc_rbuf.rd_idx =>
              (ConsumerNext /\ alloc_rbuf'.rd_idx = wrap_inc(alloc_rbuf.rd_idx, N))
        /\ return_rbuf'.wr_idx # return_rbuf.wr_idx =>
              \/ ConsumerNext /\ return_rbuf'.wr_idx = wrap_inc(return_rbuf.wr_idx, N)
              \/ Main_split /\ rb_len(return_rbuf') = N
      ]_vars

\* after the two threads have moved all four cursors of the pool, the ring
\* has been filled past the wrap of its write cursor and is_full has
\* answered true
C20_Witness ==
    /\ N = MaxPool
    /\ ThreadsDone
    /\ alloc_rbuf.wr_idx # 0 /\ alloc_rbuf.rd_idx # 0
    /\ return_rbuf.wr_idx # 0 /\ return_rbuf.rd_idx # 0
    /\ rd_idx # 0 /\ wr_idx < rd_idx
    /\ Len(fifo) = N
    /\ p_ret = "true" /\ c_ret = ToString(N)

\* ---------------------------------------------------------------------------
\* The ring started at a chosen counter value, as power_of_two_len_wrap does
\* with test_init_wr_rd, run in step with a reference ring whose counters are
\* kept modulo 2N.  The ring is rd_idx, wr_idx, buffer_ucell with results in
\* p_ret, p_ref, c_ret, c_ref, c_seen; the reference is alloc_rbuf with
\* results in producer.ret, producer.staged, consumer.ret, consumer.idx and
\* consumer.seen.  One caller makes whole operations one after the other.
\* The values written go round 0..MaxVal-1.
\* ---------------------------------------------------------------------------
\* test_init_wr_rd: "any value if N is power of 2; otherwise [0, 2*N-1]"
LegalStarts(n) == IF is_power_of_two(n) THEN 0..U32Max ELSE 0..(2 * n - 1)

\* the reference ring: counters modulo 2N, slot = counter modulo N
Ref_inc(c) == (c + 1) % (2 * N)
Ref_len(rb) == (rb.wr_idx - rb.rd_idx + 2 * N) % (2 * N)
Ref_is_empty(rb) == Ref_len(rb) = 0
Ref_is_full(rb) == Ref_len(rb) = N
Ref_slot(c) == c % N

WrapInit ==
    /\ N \in Capacities
    /\ \E start \in LegalStarts(N) :
          /\ rd_idx = start
          /\ wr_idx = start
          /\ alloc_rbuf = [RingBuf_new(N) EXCEPT !.rd_idx = start % (2 * N),
                                                 !.wr_idx = start % (2 * N)]
    /\ buffer_ucell = [i \in 0..(N - 1) |-> Uninit]
    /\ p_pc = "idle" /\ p_ref = None /\ p_ret = "none"
    /\ c_pc = "idle" /\ c_ref = None /\ c_seen = None /\ c_ret = "none"
    /\ nextVal = 0
    /\ fifo = <<>>
    /\ return_rbuf = RingBuf_new(N)
    /\ pool = [i \in 0..(N - 1) |-> SharedSingleton_new]
    /\ handles = [producer |-> FALSE, consumer |-> FALSE, ret |-> "none", calls |-> 0]
    /\ producer = [pc |-> "idle", prog |-> "free", idx |-> None, staged |-> None,
                   payload |-> None, inner |-> None, gate |-> None,
                   ret |-> "none", count |-> 0, pool_full |-> FALSE]
    /\ consumer = [pc |-> "idle", prog |-> "free", msg |-> None, payload |-> None,
                   idx |-> None, seen |-> None, ret |-> "none", expected |-> 0]

WrapFrame == UNCHANGED <<N, p_pc, c_pc, return_rbuf, pool, handles>>

\* alloc on both rings
Wrap_alloc ==
    /\ IF ~is_full(rd_idx, wr_idx, N)
       THEN p_ref' = Some(mask(wr_idx, N)) /\ p_ret' = "Some"
       ELSE p_ref' = None /\ p_ret' = "None"
    /\ producer' = [producer EXCEPT
                      !.staged = IF ~Ref_is_full(alloc_rbuf)
                                 THEN Some(Ref_slot(alloc_rbuf.wr_idx)) ELSE None,
                      !.ret = IF ~Ref_is_full(alloc_rbuf) THEN "Some" ELSE "None"]
    /\ WrapFrame
    /\ UNCHANGED <<rd_idx, wr_idx, buffer_ucell, c_ref, c_seen, c_ret, nextVal,
                   fifo, alloc_rbuf, consumer>>

\* the write of the next value through the staged references
Wrap_write_staged ==
    /\ p_ref # None
    /\ producer.staged # None
    /\ buffer_ucell' = [buffer_ucell EXCEPT ![unwrap(p_ref)] = Some(nextVal)]
    /\ alloc_rbuf' = [alloc_rbuf EXCEPT
                        !.buffer_ucell[unwrap(producer.staged)] = Some(nextVal)]
    /\ WrapFrame
    /\ UNCHANGED <<rd_idx, wr_idx, p_ref, p_ret, c_ref, c_seen, c_ret, nextVal,
                   fifo, producer, consumer>>

\* commit on both rings
Wrap_commit ==
    /\ IF ~is_full(rd_idx, wr_idx, N)
       THEN /\ wr_idx' = wrap_inc(wr_idx, N)
            /\ fifo' = Append(fifo, buffer_ucell[mask(wr_idx, N)])
            /\ p_ret' = "Ok"
       ELSE UNCHANGED <<wr_idx, fifo>> /\ p_ret' = "BuffFull"
    /\ p_ref' = None
    /\ IF ~Ref_is_full(alloc_rbuf)
       THEN /\ alloc_rbuf' = [alloc_rbuf EXCEPT !.wr_idx = Ref_inc(alloc_rbuf.wr_idx)]
            /\ producer' = [producer EXCEPT !.staged = None, !.ret = "Ok"]
       ELSE /\ alloc_rbuf' = alloc_rbuf
            /\ producer' = [producer EXCEPT !.staged = None, !.ret = "BuffFull"]
    /\ nextVal' = (nextVal + 1) % MaxVal
    /\ WrapFrame
    /\ UNCHANGED <<rd_idx, buffer_ucell, c_ref, c_seen, c_ret, consumer>>

\* push of the next value on both rings
Wrap_push ==
    /\ IF ~is_full(rd_idx, wr_idx, N)
       THEN /\ buffer_ucell' = [buffer_ucell EXCEPT ![mask(wr_idx, N)] = Some(nextVal)]
            /\ wr_idx' = wrap_inc(wr_idx, N)
            /\ fifo' = Append(fifo, Some(nextVal))
            /\ p_ret' = "Ok"
       ELSE UNCHANGED <<buffer_ucell, wr_idx, fifo>> /\ p_ret' = "BuffFull"
    /\ p_ref' = None
    /\ IF ~Ref_is_full(alloc_rbuf)
       THEN /\ alloc_rbuf' = [alloc_rbuf EXCEPT
                                !.buffer_ucell[Ref_slot(alloc_rbuf.wr_idx)] = Some(nextVal),
                                !.wr_idx = Ref_inc(alloc_rbuf.wr_idx)]
            /\ producer' = [producer EXCEPT !.staged = None, !.ret = "Ok"]
       ELSE /\ alloc_rbuf' = alloc_rbuf
            /\ producer' = [producer EXCEPT !.staged = None, !.ret = "BuffFull"]
    /\ nextVal' = (nextVal + 1) % MaxVal
    /\ WrapFrame
    /\ UNCHANGED <<rd_idx, c_ref, c_seen, c_ret, consumer>>

\* peek on both rings, and what the slot handed out holds
Wrap_peek ==
    /\ IF is_empty(rd_idx, wr_idx, N)
       THEN c_ref' = None /\ c_ret' = "None" /\ c_seen' = None
       ELSE /\ c_ref' = Some(mask(rd_idx, N))
            /\ c_ret' = "Some"
            /\ c_seen' = buffer_ucell[mask(rd_idx, N)]
    /\ consumer' = IF Ref_is_empty(alloc_rbuf)
                   THEN [consumer EXCEPT !.idx = None, !.ret = "None", !.seen = None]
                   ELSE [consumer EXCEPT
                           !.idx = Some(Ref_slot(alloc_rbuf.rd_idx)),
                           !.ret = "Some",
                           !.seen = alloc_rbuf.buffer_ucell[Ref_slot(alloc_rbuf.rd_idx)]]
    /\ WrapFrame
    /\ UNCHANGED <<rd_idx, wr_idx, buffer_ucell, p_ref, p_ret, nextVal, fifo,
                   alloc_rbuf, producer>>

\* pop on both rings
Wrap_pop ==
    /\ IF ~is_empty(rd_idx, wr_idx, N)
       THEN rd_idx' = wrap_inc(rd_idx, N) /\ fifo' = Tail(fifo) /\ c_ret' = "Ok"
       ELSE UNCHANGED <<rd_idx, fifo>> /\ c_ret' = "BuffEmpty"
    /\ c_ref' = None
    /\ c_seen' = None
    /\ IF ~Ref_is_empty(alloc_rbuf)
       THEN /\ alloc_rbuf' = [alloc_rbuf EXCEPT !.rd_idx = Ref_inc(alloc_rbuf.rd_idx)]
            /\ consumer' = [consumer EXCEPT !.idx = None, !.seen = None, !.ret = "Ok"]
       ELSE /\ alloc_rbuf' = alloc_rbuf
            /\ consumer' = [consumer EXCEPT !.idx = None, !.seen = None,
                                            !.ret = "BuffEmpty"]
    /\ WrapFrame
    /\ UNCHANGED <<wr_idx, buffer_ucell, p_ref, p_ret, nextVal, producer>>

WrapNext ==
    \/ Wrap_alloc
    \/ Wrap_write_staged
    \/ Wrap_commit
    \/ Wrap_push
    \/ Wrap_peek
    \/ Wrap_pop

WrapSpec == WrapInit /\ [][WrapNext]_vars

C22_PeekWithPayload ==
    [][ /\ Consumer_peek_with_payload =>
              IF rb_len(alloc_rbuf) = 0
              THEN consumer'.ret = "None" /\ consumer'.msg = None
                   /\ consumer'.payload = None
              ELSE /\ consumer'.msg = Some(mask(alloc_rbuf.rd_idx, N))
                   /\ consumer'.ret \in {"Some,Some", "Some,None"}
                   /\ consumer'.ret = "Some,Some" <=> consumer'.payload # None
                   /\ \A i \in 0..N :
                         Head(rb_items(alloc_rbuf)) = Some(i) =>
                            consumer'.payload = IF i < N THEN Some(i) ELSE None
        /\ Producer_stage =>
              /\ producer'.ret = "None" <=> rb_len(alloc_rbuf) = N
              /\ producer'.ret \in {"Some", "None"}
              /\ producer'.ret = "Some" =>
                    /\ producer'.staged = Some(mask(alloc_rbuf.wr_idx, N))
                    /\ alloc_rbuf'.buffer_ucell[mask(alloc_rbuf.wr_idx, N)] = Some(N)
              /\ return_rbuf' = return_rbuf /\ pool' = pool
              /\ alloc_rbuf'.rd_idx = alloc_rbuf.rd_idx
              /\ alloc_rbuf'.wr_idx = alloc_rbuf.wr_idx
        /\ (Producer_stage_with_payload_stage /\ producer'.ret = "Ok") =>
              /\ producer.idx # None /\ unwrap(producer.idx) < N
              /\ alloc_rbuf'.buffer_ucell[mask(alloc_rbuf.wr_idx, N)] = producer.idx
      ]_vars

\* peek_with_payload has returned a message staged with stage() and no slot,
\* the return queue still holding its N entries
C22_Witness ==
    /\ N = MaxPool
    /\ consumer.ret = "Some,None" /\ consumer.pc = "idle"
    /\ consumer.msg = Some(mask(alloc_rbuf.rd_idx, N))
    /\ consumer.payload = None
    /\ rb_len(alloc_rbuf) = 1
    /\ Head(rb_items(alloc_rbuf)) = Some(N)
    /\ rb_len(return_rbuf) = N

\* ------------------------------------------------------------------------
\* test_threads with both threads scheduled
\* ------------------------------------------------------------------------
\* tests/integration_test.rs::test_threads where the main thread's split and
\* each spawned thread's loop keep being scheduled: thread::spawn runs each
\* closure on an OS thread of its own and p_handle.join(), c_handle.join()
\* wait for both, so a thread that can take a step eventually takes one
ThreadFairSpec ==
    /\ ThreadSpec
    /\ WF_vars(Main_split)
    /\ WF_vars(ProducerNext)
    /\ WF_vars(ConsumerNext)

\* both loops of test_threads have left with all total_transfer payloads
\* committed and consumed
TransferDone ==
    /\ producer.prog = "exit" /\ producer.count = total_transfer
    /\ consumer.prog = "exit" /\ consumer.expected = total_transfer

\* C23: under weak fairness of the main thread's split and of the producer
\* and consumer threads of test_threads, every one of the total_transfer
\* (more than N) payloads is eventually committed and eventually consumed:
\* for every k up to total_transfer the producer's count and the consumer's
\* count eventually reach k, both loops eventually exit, a stage_with_payload
\* that failed is eventually followed by one that succeeds, and a consumer
\* that found no message eventually finds one.
C23_TransferProgress ==
    /\ \A k \in 1..(MaxPool + TransferExtra) :
          <>(k <= total_transfer => producer.count >= k /\ consumer.expected >= k)
    /\ <>[]TransferDone
    /\ (producer.ret \in {"PoolFull", "AllocBufFull"}) ~> (producer.ret = "Ok")
    /\ (consumer.ret = "None") ~> (consumer.ret = "Some")

\* both threads have exited after the last of more than N transfers, the
\* producer having found the pool exhausted on the way
C23_Witness ==
    /\ N = MaxPool
    /\ TransferDone
    /\ producer.pool_full
    /\ rb_len(return_rbuf) = N /\ rb_len(alloc_rbuf) = 0

C25_MaskCyclic ==
    [][ \A c \in {<<wr_idx, wr_idx'>>, <<rd_idx, rd_idx'>>} :
           /\ mask(c[1], N) = c[1] % N
           /\ mask(c[2], N) = c[2] % N
           /\ mask(c[2], N) \in 0..(N - 1)
           /\ c[2] # c[1] =>
                 /\ c[2] = wrap_inc(c[1], N)
                 /\ mask(c[2], N) = (mask(c[1], N) + 1) % N
      ]_vars

\* the write counter of a ring of capacity 2 has wrapped from the largest
\* word value to 0 and its slot has gone from 1 to 0
C25_Witness ==
    /\ N = 2
    /\ rd_idx = U32Max /\ wr_idx = 0
    /\ mask(rd_idx, N) = 1 /\ mask(wr_idx, N) = 0
    /\ p_ret = "Ok"
    /\ Len(fifo) = 1

\* ------------------------------------------------------------------------
\* Producer and consumer on distinct slots
\* ------------------------------------------------------------------------
\* C26: in every state of every interleaving of one producer and one
\* consumer, when the ring is neither full nor empty mask(wr_idx) differs
\* from mask(rd_idx); the slot the producer holds between alloc and commit
\* (or writes inside push) is the unpublished slot mask(wr_idx) of a ring
\* that is not full, the slot the consumer holds between peek and pop is the
\* published slot mask(rd_idx) of a ring that is not empty, and the two are
\* never the same slot; the slot the consumer holds has the content it had
\* at the commit that published it, so every write to it came before that
\* commit.
C26_NoAliasing ==
    /\ (~is_full(rd_idx, wr_idx, N) /\ ~is_empty(rd_idx, wr_idx, N)) =>
          mask(wr_idx, N) # mask(rd_idx, N)
    /\ p_ref # None =>
          /\ p_ref = Some(mask(wr_idx, N))
          /\ ~is_full(rd_idx, wr_idx, N)
    /\ p_pc = "push_write" => ~is_full(rd_idx, wr_idx, N)
    /\ c_ref # None =>
          /\ c_ref = Some(mask(rd_idx, N))
          /\ ~is_empty(rd_idx, wr_idx, N)
          /\ fifo # <<>>
          /\ buffer_ucell[unwrap(c_ref)] = Head(fifo)
          /\ p_ref # c_ref
          /\ p_pc = "push_write" => mask(wr_idx, N) # unwrap(c_ref)

\* the producer holds the slot it is writing and the consumer holds the slot
\* it is reading, at the same time, in a ring of the largest capacity
C26_Witness ==
    /\ N = MaxN
    /\ p_ref # None /\ c_ref # None
    /\ buffer_ucell[unwrap(p_ref)] # Uninit
    /\ c_seen # None
    /\ p_ref # c_ref
    /\ len(rd_idx, wr_idx, N) = N - 1

\* ------------------------------------------------------------------------
\* Uniqueness and accounting of the pool indices
\* ------------------------------------------------------------------------
\* C27: in every state after the seeding, reached by any sequence of calls on
\* the two handles, every slot index i in [0, N) is named by at most one
\* entry of the alloc queue and the return queue taken together (so no two
\* committed, unconsumed messages carry the same valid PoolIndex).
C27_IndexUniqueness ==
    return_rbuf.has_split_prod =>
        \A i \in 0..(N - 1) : Naming(alloc_rbuf, i) + Naming(return_rbuf, i) <= 1

\* C28: when the producer holds a message staged by stage_with_payload that
\* carries index i and, with no commit in between, stages again through
\* stage() or stage_with_payload, then after that call index i is still
\* named by the staged message or by an entry of the return queue.
C28_RestageKeepsIndex ==
    [][ \A i \in 0..(N - 1) :
           ( /\ producer.staged # None
             /\ alloc_rbuf.buffer_ucell[unwrap(producer.staged)] = Some(i)
             /\ Producer_stage \/ Producer_stage_with_payload_stage )
           => \/ /\ producer'.staged # None
                 /\ alloc_rbuf'.buffer_ucell[unwrap(producer'.staged)] = Some(i)
              \/ Names(return_rbuf', i)
      ]_vars

\* ------------------------------------------------------------------------
\* The combined split
\* ------------------------------------------------------------------------
\* C29: a split() on the pool that returns AlreadySplit leaves every latch of
\* both queues as it was and seeds nothing (the return queue is unchanged),
\* and after every step an endpoint whose handle has never been handed to the
\* caller has its latches clear, so a later split_prod or split_cons can
\* still obtain it.
C29_SplitAllOrNothing ==
    [][ /\ (SharedPool_split /\ handles'.ret = "AlreadySplit") =>
              /\ alloc_rbuf' = alloc_rbuf
              /\ return_rbuf' = return_rbuf
        /\ ~handles'.producer =>
              ~(alloc_rbuf'.has_split_prod \/ return_rbuf'.has_split_cons)
        /\ ~handles'.consumer =>
              ~(alloc_rbuf'.has_split_cons \/ return_rbuf'.has_split_prod)
      ]_vars

\* ---------------------------------------------------------------------------
\* Two threads that each call split_prod or split_cons once on one static
\* SharedPool (RingBuf and the pool are shared through `unsafe impl Sync`;
\* the latches are Cell<bool>, the counters Cell<u32>).  Every get and every
\* set of a latch or of a counter is a step of its own.  handles[t] is the
\* call of thread t: op the method called, pc its position, i the loop
\* variable of the pre-fill loop, val the counter value wrap_inc has computed
\* and not yet stored, ret the result ("Ok": the handle was returned).
\* ---------------------------------------------------------------------------
Threads == 1..2

\* the latch of the alloc queue and the latch of the return queue that the
\* method `op` of the pool tests and sets
alloc_latch(op) == IF op = "split_prod" THEN "has_split_prod" ELSE "has_split_cons"
return_latch(op) == IF op = "split_prod" THEN "has_split_cons" ELSE "has_split_prod"

RaceInit ==
    /\ N \in PoolDepths
    /\ RingNew
    /\ alloc_rbuf = RingBuf_new(N)
    /\ return_rbuf = RingBuf_new(N)
    /\ pool = [i \in 0..(N - 1) |-> SharedSingleton_new]
    /\ \E op1 \in {"split_prod", "split_cons"}, op2 \in {"split_prod", "split_cons"} :
          handles = [t \in Threads |->
                       [op |-> IF t = 1 THEN op1 ELSE op2, pc |-> "check",
                        i |-> 0, val |-> 0, ret |-> "none"]]
    /\ producer = [pc |-> "idle", prog |-> "free", idx |-> None, staged |-> None,
                   payload |-> None, inner |-> None, gate |-> None,
                   ret |-> "none", count |-> 0, pool_full |-> FALSE]
    /\ consumer = [pc |-> "idle", prog |-> "free", msg |-> None, payload |-> None,
                   idx |-> None, seen |-> None, ret |-> "none", expected |-> 0]

RaceFrame == UNCHANGED <<N, ringvars, pool, producer, consumer>>

\* SharedPool::split_prod / split_cons: the test of the two latches
Race_check(t) ==
    /\ handles[t].pc = "check"
    /\ handles' = [handles EXCEPT ![t] =
          IF alloc_rbuf[alloc_latch(@.op)] \/ return_rbuf[return_latch(@.op)]
          THEN [@ EXCEPT !.pc = "done", !.ret = "AlreadySplit"]
          ELSE [@ EXCEPT !.pc = "alloc_get"]]
    /\ UNCHANGED <<alloc_rbuf, return_rbuf>>
    /\ RaceFrame

\* self.alloc_rbuf.split_*().unwrap(): RingBuf::split_*, the get of its latch
Race_alloc_get(t) ==
    /\ handles[t].pc = "alloc_get"
    /\ handles' = [handles EXCEPT ![t] =
          IF alloc_rbuf[alloc_latch(@.op)]
          THEN [@ EXCEPT !.pc = "done", !.ret = "panic"]
          ELSE [@ EXCEPT !.pc = "alloc_set"]]
    /\ UNCHANGED <<alloc_rbuf, return_rbuf>>
    /\ RaceFrame

\* RingBuf::split_*, the set of its latch
Race_alloc_set(t) ==
    /\ handles[t].pc = "alloc_set"
    /\ alloc_rbuf' = [alloc_rbuf EXCEPT ![alloc_latch(handles[t].op)] = TRUE]
    /\ handles' = [handles EXCEPT ![t].pc = "return_get"]
    /\ UNCHANGED return_rbuf
    /\ RaceFrame

\* self.return_rbuf.split_*().unwrap(): the get of the latch
Race_return_get(t) ==
    /\ handles[t].pc = "return_get"
    /\ handles' = [handles EXCEPT ![t] =
          IF return_rbuf[return_latch(@.op)]
          THEN [@ EXCEPT !.pc = "done", !.ret = "panic"]
          ELSE [@ EXCEPT !.pc = "return_set"]]
    /\ UNCHANGED <<alloc_rbuf, return_rbuf>>
    /\ RaceFrame

\* the set of the latch of the return queue; split_prod then returns its
\* Producer, split_cons goes on to the pre-fill loop
Race_return_set(t) ==
    /\ handles[t].pc = "return_set"
    /\ return_rbuf' = [return_rbuf EXCEPT ![return_latch(handles[t].op)] = TRUE]
    /\ handles' = [handles EXCEPT ![t] =
          IF @.op = "split_prod"
          THEN [@ EXCEPT !.pc = "done", !.ret = "Ok"]
          ELSE [@ EXCEPT !.pc = "seed_stage", !.i = 0]]
    /\ UNCHANGED alloc_rbuf
    /\ RaceFrame

\* the pre-fill loop: ret_p.stage().unwrap() and item.set_pool_idx(i)
Race_seed_stage(t) ==
    /\ handles[t].pc = "seed_stage"
    /\ IF rb_is_full(return_rbuf)
       THEN /\ handles' = [handles EXCEPT ![t].pc = "done", ![t].ret = "panic"]
            /\ return_rbuf' = return_rbuf
       ELSE /\ handles' = [handles EXCEPT ![t].pc = "seed_commit"]
            /\ return_rbuf' = rb_write(return_rbuf, rb_stage_slot(return_rbuf),
                                       handles[t].i)
    /\ UNCHANGED alloc_rbuf
    /\ RaceFrame

\* the pre-fill loop: ret_p.commit().unwrap(), the is_full test and the get
\* of wr_idx inside wrap_inc
Race_seed_commit(t) ==
    /\ handles[t].pc = "seed_commit"
    /\ handles' = [handles EXCEPT ![t] =
          IF rb_is_full(return_rbuf)
          THEN [@ EXCEPT !.pc = "done", !.ret = "panic"]
          ELSE [@ EXCEPT !.pc = "seed_inc", !.val = wrap_inc(return_rbuf.wr_idx, N)]]
    /\ UNCHANGED <<alloc_rbuf, return_rbuf>>
    /\ RaceFrame

\* the pre-fill loop: the set of wr_idx inside wrap_inc, and the end of the
\* iteration; after the last one split_cons returns its Consumer
Race_seed_inc(t) ==
    /\ handles[t].pc = "seed_inc"
    /\ return_rbuf' = [return_rbuf EXCEPT !.wr_idx = handles[t].val]
    /\ handles' = [handles EXCEPT ![t] =
          IF @.i + 1 >= N
          THEN [@ EXCEPT !.i = @ + 1, !.pc = "done", !.ret = "Ok"]
          ELSE [@ EXCEPT !.i = @ + 1, !.pc = "seed_stage"]]
    /\ UNCHANGED alloc_rbuf
    /\ RaceFrame

RaceNext ==
    \E t \in Threads :
        \/ Race_check(t)
        \/ Race_alloc_get(t)
        \/ Race_alloc_set(t)
        \/ Race_return_get(t)
        \/ Race_return_set(t)
        \/ Race_seed_stage(t)
        \/ Race_seed_commit(t)
        \/ Race_seed_inc(t)

RaceSpec == RaceInit /\ [][RaceNext]_vars

\* thread t is in, or has completed, the pre-fill loop of split_cons
Seeding(t) ==
    \/ handles[t].pc \in {"seed_stage", "seed_commit", "seed_inc"}
    \/ handles[t].op = "split_cons" /\ handles[t].i > 0

\* C30: when two threads call split_prod or split_cons on one pool
\* concurrently, with every latch read and latch write a step of its own, at
\* most one of two calls of the same method returns Ok (two handles for one
\* endpoint never exist) and the pre-fill loop is not run by both threads.
C30_OneShotSplitConcurrent ==
    \A t1, t2 \in Threads :
        (t1 # t2 /\ handles[t1].op = handles[t2].op) =>
            /\ ~(handles[t1].ret = "Ok" /\ handles[t2].ret = "Ok")
            /\ ~(Seeding(t1) /\ Seeding(t2))

====
